---------------------------- MODULE Spec2Model ----------------------------
(***************************************************************************)
(* Model of the change-resolution and attribution engine of                *)
(* pretty_release_notes: reviewer attribution of pull requests and their   *)
(* backports, revert-pair suppression in ReleaseNotes.serialize, the       *)
(* summary-cache key, and the two summary-cache backends (CSVDatabase,     *)
(* SQLiteDatabase), sequentially and under concurrent workers.             *)
(*                                                                         *)
(* The module holds several specifications over one set of variables; each *)
(* specification drives one group of variables and leaves the others at    *)
(* their initial value.                                                    *)
(***************************************************************************)
EXTENDS Integers, Sequences, FiniteSets, TLC

(***************************************************************************)
(* Text: strings of the program are sequences of one-character strings, so *)
(* that the regular expressions of the code can be evaluated on them.      *)
(***************************************************************************)
DigitChars == <<"0", "1", "2", "3", "4", "5", "6", "7", "8", "9">>

IsDigit(c) == \E i \in 1..Len(DigitChars) : DigitChars[i] = c

\* \s of Python's re module on str (the characters the model uses)
IsSpace(c) == c \in {" ", "\t", "\n"}

\* str(n) of a non-negative int: decimal digits without leading zeros
RECURSIVE Str(_)
Str(n) == IF n < 10 THEN <<DigitChars[n + 1]>>
          ELSE Str(n \div 10) \o <<DigitChars[(n % 10) + 1]>>

\* the literal text "(backport #" of BACKPORT_NO
BackportMarker == <<"(", "b", "a", "c", "k", "p", "o", "r", "t", " ", "#">>

\* s without its trailing whitespace: the part before the \s*$ of BACKPORT_NO
RECURSIVE RStrip(_)
RStrip(s) == IF s # <<>> /\ IsSpace(s[Len(s)]) THEN RStrip(SubSeq(s, 1, Len(s) - 1)) ELSE s

\* number of digit characters that end s
RECURSIVE TrailingDigits(_)
TrailingDigits(s) == IF s # <<>> /\ IsDigit(s[Len(s)])
                     THEN 1 + TrailingDigits(SubSeq(s, 1, Len(s) - 1))
                     ELSE 0

EndsWith(s, suffix) ==
    /\ Len(s) >= Len(suffix)
    /\ SubSeq(s, Len(s) - Len(suffix) + 1, Len(s)) = suffix

None == "None"

\* the value None of a field that otherwise holds a set of strings
NoneSet == {None}

\* None of an optional str that holds digits when present (\d+ is never empty)
NoStr == <<>>

\* PullRequest.backport_no: BACKPORT_NO.search(title), group 1 or None.
\* The pattern \(backport #(\d+)\)\s*$ can only match at the end of the title.
BackportNo(title) ==
    LET t == RStrip(title) IN
    IF t = <<>> \/ t[Len(t)] # ")" THEN NoStr
    ELSE LET body == SubSeq(t, 1, Len(t) - 1)
             k    == TrailingDigits(body)
         IN IF k >= 1 /\ EndsWith(SubSeq(body, 1, Len(body) - k), BackportMarker)
            THEN SubSeq(body, Len(body) - k + 1, Len(body))
            ELSE NoStr

(***************************************************************************)
(* The remote (GitHub) data of the attribution specification.              *)
(***************************************************************************)
Users == {"alice", "bob"}

PRNumbers == {1, 2}

\* deepest entity of a backport chain the model creates (entities 0..MaxDepth)
MaxDepth == 2

Depths == 0..MaxDepth

PlainTitle == <<"f", "i", "x", ":", " ", "x">>

BackportTitle(n) == PlainTitle \o <<" ">> \o BackportMarker \o Str(n) \o <<")">>

PRTitles == {PlainTitle} \cup {BackportTitle(n) : n \in PRNumbers}

RemotePR == [title : PRTitles, author : Users, merged_by : Users, reviews : SUBSET Users]

VARIABLES
    remote,         \* PR number -> the data GitHub holds for it
    entNum,         \* entity (by depth in the chain) -> PR number, 0 = not created
    entReviewers,   \* PullRequest.reviewers: None or a set of users
    entBackportOf,  \* PullRequest.backport_of is set (the entity one deeper)
    call,           \* state of the set_reviewers call on the entity
    t1,             \* thread running _get_reviewers
    t2,             \* thread running _get_original_reviewers
    loadState       \* ReleaseNotes.load_reviewers

prVars == <<remote, entNum, entReviewers, entBackportOf, call, t1, t2, loadState>>

VARIABLES
    doc,            \* ReleaseNotes.lines
    out,            \* the body serialize has produced, as a sequence of items
    outArgs         \* the arguments of that serialize call

docVars == <<doc, out, outArgs>>

VARIABLES
    kRemote,        \* PR number -> title on GitHub
    kCur,           \* number of the PR of the line, 0 before get_pr
    kOrig,          \* number of its backport_of, 0 while unresolved
    kKeys           \* the summary keys computed so far

keyVars == <<kRemote, kCur, kOrig, kKeys>>

VARIABLES
    csvFile,        \* the file of a CSVDatabase: whether it exists, and its lines
    sqlRows,        \* the committed rows of a SQLiteDatabase, by rowid
    lastOp,         \* the last cache call made on both backends, with its results
    prevOp,         \* the call before it
    prevCsv,        \* the file before the last call
    prevSql,        \* the rows before the last call
    nOps            \* number of calls made

cacheVars == <<csvFile, sqlRows, lastOp, prevOp, prevCsv, prevSql, nOps>>

VARIABLES
    sqLock,         \* SQLiteDatabase._lock: the worker that holds it, or 0
    sqPc,           \* worker -> where it is in its current call
    sqOp,           \* worker -> its current call
    sqConn,         \* worker -> its thread-local connection exists
    sqCalls,        \* worker -> number of calls it has started
    sqRes,          \* worker -> outcome of its last finished call
    sqRaised,       \* some call has raised
    sqTable,        \* committed rows of table sentences, by rowid
    sqTableExists,  \* the table has been created
    sqWriter,       \* the connection that holds SQLite's write lock, or 0
    sqPending       \* worker -> the uncommitted statement of its connection

sqlVars == <<sqLock, sqPc, sqOp, sqConn, sqCalls, sqRes, sqRaised, sqTable, sqTableExists,
             sqWriter, sqPending>>

VARIABLES
    cvFile,         \* the file of the shared CSVDatabase
    cvPc,           \* worker -> where it is in its current call
    cvOp,           \* worker -> its current call
    cvHeader,       \* worker -> write_header of its store_sentence
    cvRows,         \* worker -> rows its delete_sentence has read and kept
    cvCalls,        \* worker -> number of calls it has started
    cvLive          \* keys stored by a finished call and not deleted since

csvVars == <<cvFile, cvPc, cvOp, cvHeader, cvRows, cvCalls, cvLive>>

VARIABLES
    agRound,        \* 0 until set_reviewers is called a second time on the PR, then 2
    agFirst         \* what the first call left behind, once the second has begun

againVars == <<agRound, agFirst>>

VARIABLES
    plKind,         \* whose pool: "load" (load_reviewers) or "strategy" (ThreadPoolStrategy)
    plMax,          \* max_workers of the ThreadPoolExecutor
    plCall,         \* where the caller of load_reviewers / execute_parallel is
    plTask,         \* task -> state of the submitted callable
    plBackport,     \* task -> the PR of the line is a backport
    plT1,           \* task -> the _get_reviewers thread of its set_reviewers
    plT2,           \* task -> the _get_original_reviewers thread of its set_reviewers
    plO1,           \* task -> the _get_reviewers thread of backport_of.set_reviewers
    plOrder         \* the tasks in the order in which they ended

poolVars == <<plKind, plMax, plCall, plTask, plBackport, plT1, plT2, plO1, plOrder>>

VARIABLES
    gPc,            \* where generate() is: "start", "lines", "returned", "raised"
    gOld,           \* the lines of the body the release has
    gBody,          \* the lines generate works on, and which body they came from
    gDone,          \* the outcome of _process_line for each line processed so far
    gDb,            \* the summary cache: key -> stored sentence
    gUpd            \* the outcome of update_on_github

genVars == <<gPc, gOld, gBody, gDone, gDb, gUpd>>

VARIABLES
    txIn,           \* the title or body handed to the parsing properties, by its parts
    txText,         \* the same title or body as text
    txOut           \* what the properties returned for it

textVars == <<txIn, txText, txOut>>

VARIABLES
    mTitle,         \* the titles of the entities of one backport chain, the line's pull request first
    mOf,            \* per entity: whether backport_of is set
    mFetch,         \* per entity: the get_pr requests its _set_backport_of has issued
    mNeed,          \* per entity: whether an operation that needs the target has run
    mCalls          \* the operations called on the first entity so far, in call order

memoVars == <<mTitle, mOf, mFetch, mNeed, mCalls>>

VARIABLES
    fDoc,           \* the lines of the document whose footer is written
    fSeed,          \* run -> the order in which that run's sets of names iterate
    fArgs,          \* the arguments of the serialize calls
    fOut            \* run -> what serialize has returned in that run

footVars == <<fDoc, fSeed, fArgs, fOut>>

vars == <<prVars, docVars, keyVars, cacheVars, sqlVars, csvVars, againVars, poolVars, genVars, textVars, memoVars, footVars>>

notPR == <<docVars, keyVars, cacheVars, sqlVars, csvVars, againVars, poolVars, genVars, textVars, memoVars, footVars>>

notDoc == <<prVars, keyVars, cacheVars, sqlVars, csvVars, againVars, poolVars, genVars, textVars, memoVars, footVars>>

notKey == <<prVars, docVars, cacheVars, sqlVars, csvVars, againVars, poolVars, genVars, textVars, memoVars, footVars>>

notCache == <<prVars, docVars, keyVars, sqlVars, csvVars, againVars, poolVars, genVars, textVars, memoVars, footVars>>

notSQL == <<prVars, docVars, keyVars, cacheVars, csvVars, againVars, poolVars, genVars, textVars, memoVars, footVars>>

notCSV == <<prVars, docVars, keyVars, cacheVars, sqlVars, againVars, poolVars, genVars, textVars, memoVars, footVars>>

\* what a step of a second set_reviewers call leaves alone
notAgain == <<docVars, keyVars, cacheVars, sqlVars, csvVars, poolVars, genVars, textVars, memoVars, footVars>>

\* what a step of a worker pool leaves alone; the pool of load_reviewers works
\* on the lines of the document
notPool == <<prVars, keyVars, cacheVars, sqlVars, csvVars, againVars, genVars, textVars, memoVars, footVars>>

\* what a step of this group leaves alone
notGen == <<prVars, docVars, keyVars, cacheVars, sqlVars, csvVars, againVars, poolVars, textVars, memoVars, footVars>>

\* the genVars variables of a specification that does not use them
IdleGen ==
    /\ gPc = "unused"
    /\ gOld = <<>>
    /\ gBody = <<>>
    /\ gDone = <<>>
    /\ gDb = <<>>
    /\ gUpd = "unused"

\* what a step of this group leaves alone
notText == <<prVars, docVars, keyVars, cacheVars, sqlVars, csvVars, againVars, poolVars, genVars, memoVars, footVars>>

\* the textVars variables of a specification that does not use them
IdleText ==
    /\ txIn = <<>>
    /\ txText = <<>>
    /\ txOut = <<>>

\* what a step of this group leaves alone
notMemo == <<prVars, docVars, keyVars, cacheVars, sqlVars, csvVars, againVars, poolVars, genVars, textVars, footVars>>

\* the memoVars variables of a specification that does not use them
IdleMemo ==
    /\ mTitle = <<>>
    /\ mOf = <<>>
    /\ mFetch = <<>>
    /\ mNeed = <<>>
    /\ mCalls = <<>>

\* what a step of this group leaves alone
notFoot == <<prVars, docVars, keyVars, cacheVars, sqlVars, csvVars, againVars, poolVars, genVars, textVars, memoVars>>

\* the footVars variables of a specification that does not use them
IdleFoot ==
    /\ fDoc = <<>>
    /\ fSeed = <<>>
    /\ fArgs = <<>>
    /\ fOut = <<>>

\* the variables of the second call in a specification that makes none
IdleAgain ==
    /\ agRound = 0
    /\ agFirst = <<>>

\* the worker-pool variables of a specification that does not use them
IdlePool ==
    /\ plKind = "unused"
    /\ plMax = 0
    /\ plCall = "unused"
    /\ plTask = <<>>
    /\ plBackport = <<>>
    /\ plT1 = <<>>
    /\ plT2 = <<>>
    /\ plO1 = <<>>
    /\ plOrder = <<>>

\* the attribution variables of a specification that does not use them
IdlePR ==
    /\ remote = <<>>
    /\ entNum = <<>>
    /\ entReviewers = <<>>
    /\ entBackportOf = <<>>
    /\ call = <<>>
    /\ t1 = <<>>
    /\ t2 = <<>>
    /\ loadState = "unused"

\* the document variables of a specification that does not use them
IdleDoc ==
    /\ doc = <<>>
    /\ out = <<>>
    /\ outArgs = <<>>

\* the sequential cache variables of a specification that does not use them
IdleCache ==
    /\ csvFile = <<>>
    /\ sqlRows = <<>>
    /\ lastOp = <<>>
    /\ prevOp = <<>>
    /\ prevCsv = <<>>
    /\ prevSql = <<>>
    /\ nOps = 0

\* the concurrent SQLite variables of a specification that does not use them
IdleSQL ==
    /\ sqLock = 0
    /\ sqPc = <<>>
    /\ sqOp = <<>>
    /\ sqConn = <<>>
    /\ sqCalls = <<>>
    /\ sqRes = <<>>
    /\ sqRaised = FALSE
    /\ sqTable = <<>>
    /\ sqTableExists = FALSE
    /\ sqWriter = 0
    /\ sqPending = <<>>

\* the concurrent CSV variables of a specification that does not use them
IdleCSV ==
    /\ cvFile = <<>>
    /\ cvPc = <<>>
    /\ cvOp = <<>>
    /\ cvHeader = <<>>
    /\ cvRows = <<>>
    /\ cvCalls = <<>>
    /\ cvLive = {}

\* the summary-key variables of a specification that does not use them
IdleKey ==
    /\ kRemote = <<>>
    /\ kCur = 0
    /\ kOrig = 0
    /\ kKeys = <<>>


Author(d) == remote[entNum[d]].author

MergedBy(d) == remote[entNum[d]].merged_by

Title(d) == remote[entNum[d]].title

\* GitHubClient.get_pr: the PR whose number is written pr_no, 0 when there is none (404)
LookupPR(pr_no) == IF \E n \in DOMAIN remote : Str(n) = pr_no
                   THEN CHOOSE n \in DOMAIN remote : Str(n) = pr_no
                   ELSE 0

InitPR ==
    /\ remote \in [PRNumbers -> RemotePR]
    /\ entNum = [d \in Depths |-> IF d = 0 THEN 1 ELSE 0]
    /\ entReviewers = [d \in Depths |-> NoneSet]
    /\ entBackportOf = [d \in Depths |-> FALSE]
    /\ call = [d \in Depths |-> "idle"]
    /\ t1 = [d \in Depths |-> "none"]
    /\ t2 = [d \in Depths |-> "none"]
    /\ loadState = "idle"
    /\ IdleDoc
    /\ IdleKey
    /\ IdleCache
    /\ IdleSQL
    /\ IdleCSV
    /\ IdleAgain
    /\ IdlePool
    /\ IdleGen
    /\ IdleText
    /\ IdleMemo
    /\ IdleFoot

\* ReleaseNotes.load_reviewers: executor.submit(pr.set_reviewers)
LoadReviewers ==
    /\ loadState = "idle"
    /\ loadState' = "submitted"
    /\ call' = [call EXCEPT ![0] = "called"]
    /\ UNCHANGED <<remote, entNum, entReviewers, entBackportOf, t1, t2>>
    /\ UNCHANGED notPR

\* set_reviewers: both threads are started
StartThreads(d) ==
    /\ call[d] = "called"
    /\ call' = [call EXCEPT ![d] = "joining"]
    /\ t1' = [t1 EXCEPT ![d] = "ready"]
    /\ t2' = [t2 EXCEPT ![d] = "ready"]
    /\ UNCHANGED <<remote, entNum, entReviewers, entBackportOf, loadState>>
    /\ UNCHANGED notPR

\* _get_reviewers: self.reviewers = github.get_pr_reviewers(...)
GetReviewersOk(d) ==
    /\ t1[d] = "ready"
    /\ entReviewers' = [entReviewers EXCEPT ![d] = remote[entNum[d]].reviews]
    /\ t1' = [t1 EXCEPT ![d] = "done"]
    /\ UNCHANGED <<remote, entNum, entBackportOf, call, t2, loadState>>
    /\ UNCHANGED notPR

\* _get_reviewers: get_pr_reviewers raises; the exception ends the thread
GetReviewersFail(d) ==
    /\ t1[d] = "ready"
    /\ t1' = [t1 EXCEPT ![d] = "raised"]
    /\ UNCHANGED <<remote, entNum, entReviewers, entBackportOf, call, t2, loadState>>
    /\ UNCHANGED notPR

\* _set_backport_of returns without a fetch
SetBackportOfSkip(d) ==
    /\ t2[d] = "ready"
    /\ BackportNo(Title(d)) = NoStr \/ entBackportOf[d]
    /\ t2' = [t2 EXCEPT ![d] = "resolved"]
    /\ UNCHANGED <<remote, entNum, entReviewers, entBackportOf, call, t1, loadState>>
    /\ UNCHANGED notPR

\* _set_backport_of: self.backport_of = github.get_pr(repository, backport_no)
SetBackportOfOk(d) ==
    /\ t2[d] = "ready"
    /\ d < MaxDepth
    /\ BackportNo(Title(d)) # NoStr /\ ~entBackportOf[d]
    /\ LookupPR(BackportNo(Title(d))) # 0
    /\ entNum' = [entNum EXCEPT ![d + 1] = LookupPR(BackportNo(Title(d)))]
    /\ entBackportOf' = [entBackportOf EXCEPT ![d] = TRUE]
    /\ t2' = [t2 EXCEPT ![d] = "resolved"]
    /\ UNCHANGED <<remote, entReviewers, call, t1, loadState>>
    /\ UNCHANGED notPR

\* _set_backport_of: get_pr raises; the exception ends the thread
SetBackportOfFail(d) ==
    /\ t2[d] = "ready"
    /\ BackportNo(Title(d)) # NoStr /\ ~entBackportOf[d]
    /\ t2' = [t2 EXCEPT ![d] = "raised"]
    /\ UNCHANGED <<remote, entNum, entReviewers, entBackportOf, call, t1, loadState>>
    /\ UNCHANGED notPR

\* _get_original_reviewers: if self.backport_of: self.backport_of.set_reviewers()
CallOriginal(d) ==
    /\ t2[d] = "resolved"
    /\ IF entBackportOf[d]
       THEN /\ t2' = [t2 EXCEPT ![d] = "calling"]
            /\ call' = [call EXCEPT ![d + 1] = "called"]
       ELSE /\ t2' = [t2 EXCEPT ![d] = "done"]
            /\ UNCHANGED call
    /\ UNCHANGED <<remote, entNum, entReviewers, entBackportOf, t1, loadState>>
    /\ UNCHANGED notPR

\* backport_of.set_reviewers() has returned into _get_original_reviewers
ReturnOriginal(d) ==
    /\ t2[d] = "calling"
    /\ call[d + 1] = "returned"
    /\ t2' = [t2 EXCEPT ![d] = "done"]
    /\ UNCHANGED <<remote, entNum, entReviewers, entBackportOf, call, t1, loadState>>
    /\ UNCHANGED notPR

\* Python truthiness of an optional set: None counts as the empty set
SetOrEmpty(r) == IF r = NoneSet THEN {} ELSE r

\* set_reviewers without 'reviewers.discard(self.author)'
OwnReviewersKeepAuthor(fetched, merged_by, author) ==
    SetOrEmpty(fetched) \cup {merged_by}

\* set_reviewers, lines 110-113: the PR's own reviews plus merged_by, minus its author
OwnReviewers(fetched, merged_by, author) ==
    (SetOrEmpty(fetched) \cup {merged_by}) \ {author}

\* set_reviewers, lines 115-117: the original's reviewers are merged in, and its
\* author discarded, only when the original has a non-empty reviewer set
WithOriginal(own, hasOriginal, origReviewers, origAuthor) ==
    IF hasOriginal /\ SetOrEmpty(origReviewers) # {}
    THEN (own \cup SetOrEmpty(origReviewers)) \ {origAuthor}
    ELSE own

\* a set_reviewers that joins only its second thread
ThreadsJoinedSecondOnly(s1, s2) == s2 \in {"done", "raised"}

\* 'for thread in threads: thread.join()': both threads have ended
ThreadsJoined(s1, s2) == s1 \in {"done", "raised"} /\ s2 \in {"done", "raised"}

\* set_reviewers after both threads are joined (a thread that raised just ended)
Join(d) ==
    /\ call[d] = "joining"
    /\ ThreadsJoined(t1[d], t2[d])
    /\ entReviewers' = [entReviewers EXCEPT ![d] =
           WithOriginal(OwnReviewers(entReviewers[d], MergedBy(d), Author(d)),
                        entBackportOf[d],
                        IF entBackportOf[d] THEN entReviewers[d + 1] ELSE NoneSet,
                        IF entBackportOf[d] THEN Author(d + 1) ELSE None)]
    /\ call' = [call EXCEPT ![d] = "returned"]
    /\ UNCHANGED <<remote, entNum, entBackportOf, t1, t2, loadState>>
    /\ UNCHANGED notPR

\* load_reviewers: future.result() of a set_reviewers that returned
LoadReviewersReturn ==
    /\ loadState = "submitted"
    /\ call[0] = "returned"
    /\ loadState' = "returned"
    /\ UNCHANGED <<remote, entNum, entReviewers, entBackportOf, call, t1, t2>>
    /\ UNCHANGED notPR

NextPR ==
    \/ LoadReviewers
    \/ LoadReviewersReturn
    \/ \E d \in Depths :
        \/ StartThreads(d)
        \/ GetReviewersOk(d)
        \/ GetReviewersFail(d)
        \/ SetBackportOfSkip(d)
        \/ SetBackportOfOk(d)
        \/ SetBackportOfFail(d)
        \/ CallOriginal(d)
        \/ ReturnOriginal(d)
        \/ Join(d)

SpecPR == InitPR /\ [][NextPR]_vars

(***************************************************************************)
(* Claims on reviewer attribution (checked under SpecPR).                  *)
(***************************************************************************)
NoFetchFailed == \A d \in Depths : t1[d] # "raised" /\ t2[d] # "raised"

\* C1: for a backport B whose resolved backport_of is O, once B.set_reviewers()
\* has completed (all fetches having succeeded), O's author is not in B.reviewers.
C1_OriginalAuthorNotReviewer ==
    \A d \in 0..(MaxDepth - 1) :
        (call[d] = "returned" /\ entBackportOf[d] /\ NoFetchFailed)
            => Author(d + 1) \notin entReviewers[d]

\* C2 as stated: a PR merged by its own author never has that author in the
\* reviewer set produced by set_reviewers, backport or not.
C2_SelfMergedAuthorNeverReviewer ==
    \A d \in Depths :
        (call[d] = "returned" /\ MergedBy(d) = Author(d))
            => Author(d) \notin entReviewers[d]

\* C2 amended: a PR merged by its own author has that author in the reviewer set
\* produced by set_reviewers only if it is a backport whose original PR has that
\* author in its own computed reviewer set; a non-backport never has.
C2_SelfMergedAuthorOnlyViaOriginal ==
    \A d \in Depths :
        (call[d] = "returned" /\ MergedBy(d) = Author(d) /\ Author(d) \in entReviewers[d])
            => /\ d < MaxDepth
               /\ entBackportOf[d]
               /\ Author(d) \in SetOrEmpty(entReviewers[d + 1])

\* a self-merged, self-reviewed PR whose set_reviewers has removed its author
C2_Witness ==
    /\ call[0] = "returned"
    /\ MergedBy(0) = Author(0)
    /\ Author(0) \in remote[entNum[0]].reviews
    /\ t1[0] = "done"
    /\ Author(0) \notin entReviewers[0]

\* C4: a failed get_pr_reviewers or get_pr fetch makes set_reviewers raise, so the
\* call does not return with a reviewer set, and load_reviewers does not return
\* normally either.
C4_FetchFailurePropagates ==
    /\ \A d \in Depths : (t1[d] = "raised" \/ t2[d] = "raised") => call[d] # "returned"
    /\ loadState = "returned" => NoFetchFailed

(***************************************************************************)
(* ReleaseNotes.serialize: type and label filters, revert-pair             *)
(* suppression, flat or grouped output.                                    *)
(***************************************************************************)
\* longest document of the serialisation specification
MaxLines == 2

DocPRIds == {1, 2}

\* reverted_pr_number values: a PR of the document's id range, and one outside
DocRevertTargets == {NoStr, Str(1), Str(2), Str(9)}

DocTypes == {None, "feat", "fix"}

DocLabelSets == {{}, {"skip"}}

CommitSha == <<"c", "0", "f", "f", "e", "e">>

NoChange == [kind |-> "none", id |-> 0, sha |-> NoStr, ctype |-> None, labels |-> {}, reverted |-> NoStr]

PRChanges == [kind : {"pr"}, id : DocPRIds, sha : {NoStr}, ctype : DocTypes,
              labels : DocLabelSets, reverted : DocRevertTargets]

\* a Commit has an id (its sha) but neither is_revert nor reverted_pr_number
CommitChanges == [kind : {"commit"}, id : {0}, sha : {CommitSha}, ctype : DocTypes,
                  labels : {{}}, reverted : {NoStr}]

DocLines == {NoChange} \cup PRChanges \cup CommitChanges

Docs == UNION {[1..n -> DocLines] : n \in 0..MaxLines}

\* str(change.id)
IdText(c) == IF c.kind = "pr" THEN Str(c.id) ELSE c.sha

HasChange(c) == c.kind # "none"

\* hasattr(change, "is_revert") and change.is_revert
IsRevert(c) == c.kind = "pr" /\ c.reverted # NoStr

\* _get_reverted_pr_numbers with the presence test left out
RevertedPrNumbersUnchecked(d) ==
    {d[i].reverted : i \in {j \in DOMAIN d : IsRevert(d[j])}}

\* ReleaseNotes._get_reverted_pr_numbers
RevertedPrNumbers(d) ==
    LET pr_numbers_in_release == {IdText(d[i]) : i \in {j \in DOMAIN d : HasChange(d[j])}}
    IN {d[i].reverted : i \in {j \in DOMAIN d :
            IsRevert(d[j]) /\ d[j].reverted \in pr_numbers_in_release}}

\* serialize.is_exluded_type
IsExcludedType(c, exclude_change_types) ==
    c.ctype # None /\ exclude_change_types # {} /\ c.ctype \in exclude_change_types

\* serialize.has_excluded_label
HasExcludedLabel(c, exclude_change_labels) ==
    c.labels # {} /\ exclude_change_labels # {} /\ c.labels \cap exclude_change_labels # {}

\* serialize.is_reverted_or_revert
IsRevertedOrRevert(c, reverted_pr_numbers) ==
    IF c.kind # "pr" THEN FALSE
    ELSE \/ IsRevert(c) /\ c.reverted \in reverted_pr_numbers
         \/ IdText(c) \in reverted_pr_numbers

\* the lines with a change that serialize skips
Skipped(d, et, el) ==
    {i \in DOMAIN d :
        /\ HasChange(d[i])
        /\ \/ IsExcludedType(d[i], et)
           \/ HasExcludedLabel(d[i], el)
           \/ IsRevertedOrRevert(d[i], RevertedPrNumbers(d))}

LineItem(i) == [k |-> "line", idx |-> i, h |-> ""]

HeadingItem(h) == [k |-> "heading", idx |-> 0, h |-> h]

BlankItem == [k |-> "blank", idx |-> 0, h |-> ""]

\* the items of the lines in S, in document order
RECURSIVE LineItems(_)
LineItems(S) ==
    IF S = {} THEN <<>>
    ELSE LET i == CHOOSE x \in S : \A y \in S : x <= y
         IN <<LineItem(i)>> \o LineItems(S \ {i})

\* a flat branch that emits the lines in the order in which their fetches ended
SerializeFlatAsCompleted(d, et, el) ==
    LET kept == DOMAIN d \ Skipped(d, et, el)
        ended == SelectSeq(plOrder, LAMBDA i : i \in kept)
    IN [j \in 1..Len(ended) |-> LineItem(ended[j])]
           \o LineItems(kept \ {ended[j] : j \in 1..Len(ended)})

\* serialize, flat branch: every line without a change, every change not skipped
SerializeFlat(d, et, el) == LineItems(DOMAIN d \ Skipped(d, et, el))

\* type_order of serialize
TypeOrder == <<"feat", "fix", "perf", "docs", "refactor", "test", "build", "ci", "chore",
               "style", "revert">>

InTypeOrder(t) == \E i \in 1..Len(TypeOrder) : TypeOrder[i] = t

OtherHeading == "Other Changes"

\* GroupingConfig.type_headings (defaults)
TypeHeadings == <<"Features", "Bug Fixes", "Performance Improvements", "Documentation",
                  "Code Refactoring", "Tests", "Build System", "CI/CD", "Chores", "Style",
                  "Reverts">>

\* GroupingConfig.get_heading
GetHeading(t) ==
    IF t = None THEN OtherHeading
    ELSE IF InTypeOrder(t)
         THEN TypeHeadings[CHOOSE i \in 1..Len(TypeOrder) : TypeOrder[i] = t]
         ELSE OtherHeading

\* a section that is emitted even when no line falls into it
SectionAlways(heading, S) == <<HeadingItem(heading)>> \o LineItems(S) \o <<BlankItem>>

\* one "## heading" block of the grouped branch: if lines_list: heading, lines, ""
Section(heading, S) ==
    IF S = {} THEN <<>> ELSE <<HeadingItem(heading)>> \o LineItems(S) \o <<BlankItem>>

\* the typed sections of the standard types, from position i of type_order on
RECURSIVE StandardSections(_, _, _)
StandardSections(d, kept, i) ==
    IF i > Len(TypeOrder) THEN <<>>
    ELSE Section(GetHeading(TypeOrder[i]), {j \in kept : d[j].ctype = TypeOrder[i]})
         \o StandardSections(d, kept, i + 1)

\* the sections of the types outside type_order, in the order the dict
\* grouped_lines received them: by first line of each type
RECURSIVE NonStandardSections(_, _)
NonStandardSections(d, rest) ==
    IF rest = {} THEN <<>>
    ELSE LET i == CHOOSE x \in rest : \A y \in rest : x <= y
             S == {j \in rest : d[j].ctype = d[i].ctype}
         IN Section(GetHeading(d[i].ctype), S) \o NonStandardSections(d, rest \ S)

\* a grouped branch whose skip test leaves out has_excluded_label
SerializeGroupedNoLabelTest(d, et, el) ==
    LET kept == {i \in DOMAIN d : HasChange(d[i])} \ Skipped(d, et, {})
    IN StandardSections(d, kept, 1)
       \o NonStandardSections(d, {j \in kept : d[j].ctype # None /\ ~InTypeOrder(d[j].ctype)})
       \o Section(OtherHeading, {j \in kept : d[j].ctype = None})

\* serialize, grouped branch: lines without a change are left out
SerializeGrouped(d, et, el) ==
    LET kept == {i \in DOMAIN d : HasChange(d[i])} \ Skipped(d, et, el)
    IN StandardSections(d, kept, 1)
       \o NonStandardSections(d, {j \in kept : d[j].ctype # None /\ ~InTypeOrder(d[j].ctype)})
       \o Section(OtherHeading, {j \in kept : d[j].ctype = None})

InitDoc ==
    /\ doc \in Docs
    /\ out = <<>>
    /\ outArgs = [called |-> FALSE, types |-> {}, labels |-> {}, grouped |-> FALSE]
    /\ IdlePR
    /\ IdleKey
    /\ IdleCache
    /\ IdleSQL
    /\ IdleCSV
    /\ IdleAgain
    /\ IdlePool
    /\ IdleGen
    /\ IdleText
    /\ IdleMemo
    /\ IdleFoot

\* ReleaseNotes.serialize(exclude_change_types, exclude_change_labels, grouping)
Serialize(et, el, grouped) ==
    /\ ~outArgs.called
    /\ out' = IF grouped THEN SerializeGrouped(doc, et, el) ELSE SerializeFlat(doc, et, el)
    /\ outArgs' = [called |-> TRUE, types |-> et, labels |-> el, grouped |-> grouped]
    /\ UNCHANGED doc
    /\ UNCHANGED notDoc

NextDoc ==
    \E et \in {{}, {"feat"}}, el \in {{}, {"skip"}}, grouped \in BOOLEAN :
        Serialize(et, el, grouped)

SpecDoc == InitDoc /\ [][NextDoc]_vars

Emitted(i) == \E j \in 1..Len(out) : out[j].k = "line" /\ out[j].idx = i

\* the line's change passes the type and label filters of the call
PassesFilters(i) ==
    /\ ~IsExcludedType(doc[i], outArgs.types)
    /\ ~HasExcludedLabel(doc[i], outArgs.labels)

\* C3: a change line that no type or label filter matches is omitted by serialize
\* if and only if it is a revert whose reverted PR number is the id of a change of
\* the document, or its own id is the reverted number of a revert of the document;
\* the document's changes include those the type and label filters remove.
C3_RevertPairSuppression ==
    outArgs.called =>
        \A i \in DOMAIN doc :
            (HasChange(doc[i]) /\ PassesFilters(i)) =>
                (~Emitted(i) <=>
                    \/ /\ IsRevert(doc[i])
                       /\ \E j \in DOMAIN doc : HasChange(doc[j]) /\ IdText(doc[j]) = doc[i].reverted
                    \/ \E j \in DOMAIN doc : IsRevert(doc[j]) /\ doc[j].reverted = IdText(doc[i]))

\* a revert is dropped although the PR it reverts was removed by the type filter
C3_Witness ==
    /\ outArgs.called /\ outArgs.types = {"feat"}
    /\ Len(doc) = 2
    /\ doc[1].kind = "pr" /\ doc[1].ctype = "feat" /\ doc[1].reverted = NoStr
    /\ doc[2].kind = "pr" /\ doc[2].ctype = None /\ doc[2].labels = {}
    /\ doc[2].reverted = IdText(doc[1])
    /\ ~Emitted(1) /\ ~Emitted(2)

(***************************************************************************)
(* PullRequest.get_summary_key, of the package and of the legacy module.   *)
(***************************************************************************)
KeyPRNumbers == {1, 2, 12}

\* a title that carries the marker in the middle, where BACKPORT_NO does not match
MidMarkerTitle == BackportTitle(1) \o <<" ", "x">>

\* a title with white space after the marker, which \s*$ accepts
SpacedBackportTitle == BackportTitle(1) \o <<" ">>

KeyTitles == {PlainTitle, MidMarkerTitle, SpacedBackportTitle}
                 \cup {BackportTitle(n) : n \in KeyPRNumbers}

\* a key is a Python value: its type and its text
StrKey(text) == [type |-> "str", text |-> text]

IntKey(n) == [type |-> "int", text |-> Str(n)]

NoKey == [type |-> "none", text |-> NoStr]

\* pretty_release_notes PullRequest.get_summary_key: self.backport_no or str(self.id)
SummaryKey(id, title) ==
    IF BackportNo(title) # NoStr THEN StrKey(BackportNo(title)) ELSE StrKey(Str(id))

\* legacy models PullRequest.get_summary_key: self.backport_no or self.id
LegacySummaryKey(id, title) ==
    IF BackportNo(title) # NoStr THEN StrKey(BackportNo(title)) ELSE IntKey(id)

\* GitHubClient.get_pr on the numbers of this specification
KeyLookupPR(pr_no) == IF \E n \in KeyPRNumbers : Str(n) = pr_no
                      THEN CHOOSE n \in KeyPRNumbers : Str(n) = pr_no
                      ELSE 0

NoKeys == [before |-> NoKey, after |-> NoKey, orig |-> NoKey,
           legacyBefore |-> NoKey, legacyAfter |-> NoKey, legacyOrig |-> NoKey]

InitKey ==
    /\ kRemote \in [KeyPRNumbers -> KeyTitles]
    /\ kCur = 0
    /\ kOrig = 0
    /\ kKeys = NoKeys
    /\ IdlePR
    /\ IdleDoc
    /\ IdleCache
    /\ IdleSQL
    /\ IdleCSV
    /\ IdleAgain
    /\ IdlePool
    /\ IdleGen
    /\ IdleText
    /\ IdleMemo
    /\ IdleFoot

\* line.change = github.get_pr(repository, line.pr_no)
KeyGetPR(n) ==
    /\ kCur = 0
    /\ kCur' = n
    /\ UNCHANGED <<kRemote, kOrig, kKeys>>
    /\ UNCHANGED notKey

\* get_summary_key while backport_of is not yet set (the cache lookup)
KeyBeforeResolve ==
    /\ kCur # 0 /\ kOrig = 0 /\ kKeys.before = NoKey
    /\ kKeys' = [kKeys EXCEPT !.before = SummaryKey(kCur, kRemote[kCur]),
                              !.legacyBefore = LegacySummaryKey(kCur, kRemote[kCur])]
    /\ UNCHANGED <<kRemote, kCur, kOrig>>
    /\ UNCHANGED notKey

\* _set_backport_of: backport_of = github.get_pr(repository, backport_no)
KeyResolve ==
    /\ kCur # 0 /\ kOrig = 0
    /\ BackportNo(kRemote[kCur]) # NoStr
    /\ KeyLookupPR(BackportNo(kRemote[kCur])) # 0
    /\ kOrig' = KeyLookupPR(BackportNo(kRemote[kCur]))
    /\ UNCHANGED <<kRemote, kCur, kKeys>>
    /\ UNCHANGED notKey

\* get_summary_key of the PR and of its backport_of once that is set (the store)
KeyAfterResolve ==
    /\ kOrig # 0 /\ kKeys.after = NoKey
    /\ kKeys' = [kKeys EXCEPT !.after = SummaryKey(kCur, kRemote[kCur]),
                              !.orig = SummaryKey(kOrig, kRemote[kOrig]),
                              !.legacyAfter = LegacySummaryKey(kCur, kRemote[kCur]),
                              !.legacyOrig = LegacySummaryKey(kOrig, kRemote[kOrig])]
    /\ UNCHANGED <<kRemote, kCur, kOrig>>
    /\ UNCHANGED notKey

NextKey ==
    \/ \E n \in KeyPRNumbers : KeyGetPR(n)
    \/ KeyBeforeResolve
    \/ KeyResolve
    \/ KeyAfterResolve

SpecKey == InitKey /\ [][NextKey]_vars

\* C5: the summary key of a backport of PR N is the summary key of PR N, value
\* and type, and it is the same before and after backport_of is resolved, for
\* the get_summary_key of the package and of the legacy module.
C5_BackportSharesKeyOfOriginal ==
    /\ (kKeys.after # NoKey)
           => /\ kKeys.after = kKeys.orig
              /\ kKeys.legacyAfter = kKeys.legacyOrig
    /\ (kKeys.after # NoKey /\ kKeys.before # NoKey)
           => /\ kKeys.before = kKeys.after
              /\ kKeys.legacyBefore = kKeys.legacyAfter

(***************************************************************************)
(* The summary cache: CSVDatabase and SQLiteDatabase, called by one        *)
(* thread.                                                                 *)
(***************************************************************************)
\* number of cache calls of the sequential cache specification
MaxOps == 4

Repos == {[owner |-> "frappe", name |-> "erpnext"], [owner |-> "frappe", name |-> "hrms"]}

PrNos == {"1", "2"}

\* summaries; the second holds a carriage return
Sentences == {"foo", "a\rb"}

\* the value get_sentence returns for an absent key
Absent == "None"

Row(repo, pr_no, sentence) ==
    [owner |-> repo.owner, repo |-> repo.name, pr_no |-> pr_no, sentence |-> sentence]

\* CSVDatabase.columns, as writeheader() writes them and as DictReader with
\* fieldnames given reads them back: an ordinary row
HeaderRow == [owner |-> "owner", repo |-> "repo", pr_no |-> "pr_no", sentence |-> "sentence"]

Matches(row, repo, pr_no) ==
    row.owner = repo.owner /\ row.repo = repo.name /\ row.pr_no = pr_no

\* open(path) reads in universal-newlines mode: a carriage return inside a quoted
\* field arrives as a line feed
ReadText(t) == IF t = "a\rb" THEN "a\nb" ELSE t

ReadRow(row) == [owner |-> ReadText(row.owner), repo |-> ReadText(row.repo),
                 pr_no |-> ReadText(row.pr_no), sentence |-> ReadText(row.sentence)]

\* the rows DictReader yields for the lines of the file
ReadRows(lines) == [i \in 1..Len(lines) |-> ReadRow(lines[i])]

NoFile == [exists |-> FALSE, lines |-> <<>>]

FirstMatch(rows, repo, pr_no) ==
    IF \E i \in 1..Len(rows) : Matches(rows[i], repo, pr_no)
    THEN rows[CHOOSE i \in 1..Len(rows) :
                /\ Matches(rows[i], repo, pr_no)
                /\ \A j \in 1..(i - 1) : ~Matches(rows[j], repo, pr_no)].sentence
    ELSE Absent

\* CSVDatabase.get_sentence
CSVGet(file, repo, pr_no) ==
    IF ~file.exists THEN Absent ELSE FirstMatch(ReadRows(file.lines), repo, pr_no)

\* CSVDatabase.store_sentence
CSVStore(file, repo, pr_no, sentence) ==
    [exists |-> TRUE,
     lines |-> file.lines \o (IF ~file.exists THEN <<HeaderRow>> ELSE <<>>)
                          \o <<Row(repo, pr_no, sentence)>>]

\* the rows delete_sentence keeps
CSVKeep(rows, repo, pr_no) == SelectSeq(rows, LAMBDA r : ~Matches(r, repo, pr_no))

\* CSVDatabase.delete_sentence on an existing file: header, then the kept rows
CSVDelete(file, repo, pr_no) ==
    [exists |-> TRUE, lines |-> <<HeaderRow>> \o CSVKeep(ReadRows(file.lines), repo, pr_no)]

\* SELECT sentence ... fetchone(): the matching row of lowest rowid
SQLGet(rows, repo, pr_no) == FirstMatch(rows, repo, pr_no)

\* INSERT INTO sentences ...
SQLInsert(rows, repo, pr_no, sentence) == Append(rows, Row(repo, pr_no, sentence))

\* DELETE FROM sentences WHERE owner = ? AND repo = ? AND pr_no = ?
SQLDelete(rows, repo, pr_no) == SelectSeq(rows, LAMBDA r : ~Matches(r, repo, pr_no))

NoOp == [op |-> "none", repo |-> CHOOSE r \in Repos : TRUE, pr_no |-> "", sentence |-> "",
         csv |-> "", sql |-> ""]

InitCache ==
    /\ csvFile = NoFile
    /\ sqlRows = <<>>
    /\ lastOp = NoOp
    /\ prevOp = NoOp
    /\ prevCsv = NoFile
    /\ prevSql = <<>>
    /\ nOps = 0
    /\ IdlePR
    /\ IdleDoc
    /\ IdleKey
    /\ IdleSQL
    /\ IdleCSV
    /\ IdleAgain
    /\ IdlePool
    /\ IdleGen
    /\ IdleText
    /\ IdleMemo
    /\ IdleFoot

Record(op) ==
    /\ nOps < MaxOps
    /\ nOps' = nOps + 1
    /\ prevOp' = lastOp
    /\ lastOp' = op
    /\ prevCsv' = csvFile
    /\ prevSql' = sqlRows
    /\ UNCHANGED notCache

\* store_sentence(repo, pr_no, sentence) on both backends
CacheStore(repo, pr_no, sentence) ==
    /\ csvFile' = CSVStore(csvFile, repo, pr_no, sentence)
    /\ sqlRows' = SQLInsert(sqlRows, repo, pr_no, sentence)
    /\ Record([op |-> "store", repo |-> repo, pr_no |-> pr_no, sentence |-> sentence,
               csv |-> "returned", sql |-> "returned"])

\* get_sentence(repo, pr_no) on both backends
CacheGet(repo, pr_no) ==
    /\ UNCHANGED <<csvFile, sqlRows>>
    /\ Record([op |-> "get", repo |-> repo, pr_no |-> pr_no, sentence |-> "",
               csv |-> CSVGet(csvFile, repo, pr_no), sql |-> SQLGet(sqlRows, repo, pr_no)])

\* delete_sentence(repo, pr_no) on both backends; open(path) of a file that
\* was never written raises FileNotFoundError
CacheDelete(repo, pr_no) ==
    /\ csvFile' = IF csvFile.exists THEN CSVDelete(csvFile, repo, pr_no) ELSE csvFile
    /\ sqlRows' = SQLDelete(sqlRows, repo, pr_no)
    /\ Record([op |-> "delete", repo |-> repo, pr_no |-> pr_no, sentence |-> "",
               csv |-> IF csvFile.exists THEN "returned" ELSE "raised", sql |-> "returned"])

NextCache ==
    \E repo \in Repos, pr_no \in PrNos :
        \/ \E sentence \in Sentences : CacheStore(repo, pr_no, sentence)
        \/ CacheGet(repo, pr_no)
        \/ CacheDelete(repo, pr_no)

SpecCache == InitCache /\ [][NextCache]_vars

SameCall(a, b) == a.repo = b.repo /\ a.pr_no = b.pr_no

\* C6: on either backend and whatever the cache held, get_sentence(repo, key)
\* right after store_sentence(repo, key, s) returns s.
C6_StoreThenGet ==
    (lastOp.op = "get" /\ prevOp.op = "store" /\ SameCall(lastOp, prevOp))
        => lastOp.csv = prevOp.sentence /\ lastOp.sql = prevOp.sentence

\* C7: on either backend and whatever the cache held, delete_sentence(repo, key)
\* returns, get_sentence(repo, key) is absent after it, and get_sentence of every
\* other (repository, key) is what it was before.
C7_DeleteThenGet ==
    lastOp.op = "delete" =>
        /\ lastOp.csv = "returned" /\ lastOp.sql = "returned"
        /\ \A repo \in Repos, pr_no \in PrNos :
            IF repo = lastOp.repo /\ pr_no = lastOp.pr_no
            THEN /\ CSVGet(csvFile, repo, pr_no) = Absent
                 /\ SQLGet(sqlRows, repo, pr_no) = Absent
            ELSE /\ CSVGet(csvFile, repo, pr_no) = CSVGet(prevCsv, repo, pr_no)
                 /\ SQLGet(sqlRows, repo, pr_no) = SQLGet(prevSql, repo, pr_no)

(***************************************************************************)
(* SQLiteDatabase under concurrent workers: one threading.Lock around      *)
(* every transaction, one connection per thread.  SQLite itself lets one   *)
(* connection at a time hold an open write transaction; a statement that   *)
(* needs the write lock while another connection holds it fails with       *)
(* 'database is locked' once the busy timeout has passed.                  *)
(***************************************************************************)
\* number of worker threads
NumWorkers == 2

\* calls a worker makes in the mixed specification
MaxCalls == 2

Workers == 1..NumWorkers

\* the two workers of the mixed specification
Contenders == {1, 2}

TheRepo == [owner |-> "frappe", name |-> "erpnext"]

NoCall == [op |-> "none", pr_no |-> "", sentence |-> ""]

NoStatement == [kind |-> "none", pr_no |-> "", sentence |-> ""]

InitSQL(W) ==
    /\ sqLock = 0
    /\ sqPc = [w \in W |-> "idle"]
    /\ sqOp = [w \in W |-> NoCall]
    /\ sqConn = [w \in W |-> FALSE]
    /\ sqCalls = [w \in W |-> 0]
    /\ sqRes = [w \in W |-> "none"]
    /\ sqRaised = FALSE
    /\ sqTable = <<>>
    /\ sqTableExists = FALSE
    /\ sqWriter = 0
    /\ sqPending = [w \in W |-> NoStatement]
    /\ IdlePR
    /\ IdleDoc
    /\ IdleKey
    /\ IdleCache
    /\ IdleCSV
    /\ IdleAgain
    /\ IdlePool
    /\ IdleGen
    /\ IdleText
    /\ IdleMemo
    /\ IdleFoot

\* a worker enters store_sentence, get_sentence or delete_sentence
SQLStartCall(w, op, limit) ==
    /\ sqPc[w] = "idle"
    /\ sqCalls[w] < limit
    /\ sqCalls' = [sqCalls EXCEPT ![w] = @ + 1]
    /\ sqOp' = [sqOp EXCEPT ![w] = op]
    /\ sqPc' = [sqPc EXCEPT ![w] = "begin"]
    /\ UNCHANGED <<sqLock, sqConn, sqRes, sqRaised, sqTable, sqTableExists, sqWriter, sqPending>>
    /\ UNCHANGED notSQL

\* a lock that any worker can take at any time
LockFreeAlways(lock) == TRUE

\* threading.Lock: 'with self._lock' proceeds only while nobody holds the lock
LockFree(lock) == lock = 0

\* transaction(): with self._lock
SQLAcquire(w) ==
    /\ sqPc[w] = "begin"
    /\ sqOp[w].op \in {"store", "delete"}
    /\ LockFree(sqLock)
    /\ sqLock' = w
    /\ sqPc' = [sqPc EXCEPT ![w] = "locked"]
    /\ UNCHANGED <<sqOp, sqConn, sqCalls, sqRes, sqRaised, sqTable, sqTableExists, sqWriter,
                   sqPending>>
    /\ UNCHANGED notSQL

\* self.cursor: the thread-local connection is opened on the thread's first
\* use, which is under the lock in transaction() and without it in
\* get_sentence; a thread that has its connection goes on to its statement
SQLCursor(w) ==
    /\ \/ sqPc[w] = "locked"
       \/ sqPc[w] = "begin" /\ sqOp[w].op = "get"
    /\ sqConn' = [sqConn EXCEPT ![w] = TRUE]
    /\ sqPc' = [sqPc EXCEPT ![w] = IF sqConn[w] THEN "ready" ELSE "creating"]
    /\ UNCHANGED <<sqLock, sqOp, sqCalls, sqRes, sqRaised, sqTable, sqTableExists, sqWriter,
                   sqPending>>
    /\ UNCHANGED notSQL

\* _create_table on the new connection: CREATE TABLE / CREATE INDEX
\* IF NOT EXISTS and commit; they change the file when the table is missing
SQLCreateTable(w) ==
    /\ sqPc[w] = "creating"
    /\ sqTableExists' = TRUE
    /\ sqPc' = [sqPc EXCEPT ![w] = "ready"]
    /\ UNCHANGED <<sqLock, sqOp, sqConn, sqCalls, sqRes, sqRaised, sqTable, sqWriter, sqPending>>
    /\ UNCHANGED notSQL

\* get_sentence: SELECT on the committed rows, fetchone()
SQLSelect(w) ==
    /\ sqPc[w] = "ready"
    /\ sqOp[w].op = "get"
    /\ sqRes' = [sqRes EXCEPT ![w] = SQLGet(sqTable, TheRepo, sqOp[w].pr_no)]
    /\ sqPc' = [sqPc EXCEPT ![w] = "idle"]
    /\ UNCHANGED <<sqLock, sqOp, sqConn, sqCalls, sqRaised, sqTable, sqTableExists, sqWriter,
                   sqPending>>
    /\ UNCHANGED notSQL

\* cursor.execute(INSERT / DELETE): opens the connection's write transaction;
\* fails when another connection holds SQLite's write lock
SQLExecute(w) ==
    /\ sqPc[w] = "ready"
    /\ sqOp[w].op \in {"store", "delete"}
    /\ IF sqWriter \in {0, w}
       THEN /\ sqWriter' = w
            /\ sqPending' = [sqPending EXCEPT ![w] =
                   [kind |-> sqOp[w].op, pr_no |-> sqOp[w].pr_no, sentence |-> sqOp[w].sentence]]
            /\ sqPc' = [sqPc EXCEPT ![w] = "executed"]
       ELSE /\ sqPc' = [sqPc EXCEPT ![w] = "failed"]
            /\ UNCHANGED <<sqWriter, sqPending>>
    /\ UNCHANGED <<sqLock, sqOp, sqConn, sqCalls, sqRes, sqRaised, sqTable, sqTableExists>>
    /\ UNCHANGED notSQL

\* the body of the transaction raises (cursor.execute fails)
SQLExecuteRaises(w) ==
    /\ sqPc[w] = "ready"
    /\ sqOp[w].op \in {"store", "delete"}
    /\ sqPc' = [sqPc EXCEPT ![w] = "failed"]
    /\ UNCHANGED <<sqLock, sqOp, sqConn, sqCalls, sqRes, sqRaised, sqTable, sqTableExists,
                   sqWriter, sqPending>>
    /\ UNCHANGED notSQL

\* the committed rows once the pending statement of a connection is committed
Apply(rows, st) ==
    IF st.kind = "store" THEN SQLInsert(rows, TheRepo, st.pr_no, st.sentence)
    ELSE IF st.kind = "delete" THEN SQLDelete(rows, TheRepo, st.pr_no)
    ELSE rows

\* transaction(): connection.commit() after the body, or, when the body raised,
\* connection.rollback() and re-raise
SQLEndTransaction(w) ==
    /\ sqPc[w] \in {"executed", "failed"}
    /\ IF sqPc[w] = "executed"
       THEN /\ sqTable' = Apply(sqTable, sqPending[w])
            /\ sqPc' = [sqPc EXCEPT ![w] = "committed"]
       ELSE /\ UNCHANGED sqTable
            /\ sqPc' = [sqPc EXCEPT ![w] = "rolledback"]
    /\ sqPending' = [sqPending EXCEPT ![w] = NoStatement]
    /\ sqWriter' = IF sqWriter = w THEN 0 ELSE sqWriter
    /\ UNCHANGED <<sqLock, sqOp, sqConn, sqCalls, sqRes, sqRaised, sqTableExists>>
    /\ UNCHANGED notSQL

\* a with-block that keeps the lock when it is left by an exception
LockAfterExitLeak(w, raised) == IF raised THEN w ELSE 0

\* 'with self._lock' releases the lock however the block is left
LockAfterExit(w, raised) == 0

\* transaction() is left: the lock is released, the call returns or raises
SQLRelease(w) ==
    /\ sqPc[w] \in {"committed", "rolledback"}
    /\ sqLock' = LockAfterExit(w, sqPc[w] = "rolledback")
    /\ sqRes' = [sqRes EXCEPT ![w] = IF sqPc[w] = "committed" THEN "returned" ELSE "raised"]
    /\ sqRaised' = (sqRaised \/ sqPc[w] = "rolledback")
    /\ sqPc' = [sqPc EXCEPT ![w] = "idle"]
    /\ UNCHANGED <<sqOp, sqConn, sqCalls, sqTable, sqTableExists, sqWriter, sqPending>>
    /\ UNCHANGED notSQL

\* the calls of the mixed specification: key "1" is stored, read and deleted
SQLCalls ==
    [op : {"store"}, pr_no : PrNos, sentence : {"foo"}]
        \cup [op : {"get", "delete"}, pr_no : {"1"}, sentence : {""}]

\* the steps of one worker inside a call
SQLStep(w) ==
    \/ SQLAcquire(w)
    \/ SQLCursor(w)
    \/ SQLCreateTable(w)
    \/ SQLSelect(w)
    \/ SQLExecute(w)
    \/ SQLExecuteRaises(w)
    \/ SQLEndTransaction(w)
    \/ SQLRelease(w)

NextSQL ==
    \E w \in Contenders :
        \/ \E op \in SQLCalls : SQLStartCall(w, op, MaxCalls)
        \/ SQLAcquire(w)
        \/ SQLCursor(w)
        \/ SQLCreateTable(w)
        \/ SQLSelect(w)
        \/ SQLExecute(w)
        \/ SQLExecuteRaises(w)
        \/ SQLEndTransaction(w)
        \/ SQLRelease(w)

\* store, get and delete calls on contended keys, some of them raising
SpecSQL == InitSQL(Contenders) /\ [][NextSQL]_vars

\* every thread that is inside a call keeps running
SpecSQLFair == SpecSQL /\ \A w \in Contenders : WF_vars(SQLStep(w))

\* worker w is executing a statement that changes the database file: the
\* CREATE statements of _create_table on a file without the table, or an
\* INSERT or DELETE that is not yet committed or rolled back
Modifying(w) ==
    \/ sqPc[w] = "creating" /\ ~sqTableExists
    \/ sqPending[w] # NoStatement

\* C26: every statement that modifies the database file runs while the
\* calling thread holds the write lock, and no two threads are modifying
\* the database at the same time, whatever a thread's first call is.
C26_ModificationsUnderLock ==
    /\ \A w \in DOMAIN sqPc : Modifying(w) => sqLock = w
    /\ \A w1, w2 \in DOMAIN sqPc : Modifying(w1) /\ Modifying(w2) => w1 = w2

\* the key and sentence worker w stores in the distinct-keys specification
StoreOf(w, sentence) == [op |-> "store", pr_no |-> Str(w), sentence |-> sentence]

NextSQLStores ==
    \E w \in Workers :
        \/ \E sentence \in Sentences : SQLStartCall(w, StoreOf(w, sentence), 1)
        \/ SQLAcquire(w)
        \/ SQLCursor(w)
        \/ SQLCreateTable(w)
        \/ SQLExecute(w)
        \/ SQLEndTransaction(w)
        \/ SQLRelease(w)

\* every worker calls store_sentence once, each with a key of its own
SpecSQLStores == InitSQL(Workers) /\ [][NextSQLStores]_vars

AllStoresDone == \A w \in Workers : sqCalls[w] = 1 /\ sqPc[w] = "idle"

\* C8: when all the concurrent store_sentence calls with pairwise distinct keys
\* have returned, none has raised, every key reads back the sentence stored for
\* it, and the table holds one row per call.
C8_ConcurrentStoresAllKept ==
    AllStoresDone =>
        /\ ~sqRaised
        /\ \A w \in Workers :
               /\ sqRes[w] = "returned"
               /\ SQLGet(sqTable, TheRepo, Str(w)) = sqOp[w].sentence
        /\ Len(sqTable) = NumWorkers

\* all stores are done and their rows are in the table
C8_Witness == AllStoresDone /\ Len(sqTable) = NumWorkers /\ sqLock = 0

\* C9: every call that was started eventually returns or raises, and the lock,
\* once held, is eventually free again; a call whose transaction body raised
\* leaves the committed rows as they were, and no worker outside a call holds
\* the lock.
C9_NoDeadlock ==
    /\ \A w \in Contenders : (sqPc[w] # "idle") ~> (sqPc[w] = "idle")
    /\ (sqLock # 0) ~> (sqLock = 0)
    /\ [][\A w \in Contenders :
            (sqPc[w] \in {"failed", "rolledback"} /\ sqPc'[w] # sqPc[w]) => sqTable' = sqTable]_vars
    /\ [](\A w \in Contenders : sqPc[w] = "idle" => sqLock # w)

\* a call has raised and was rolled back while another worker waits for the lock
C9_Witness ==
    \E w, v \in Contenders :
        /\ w # v
        /\ sqPc[w] = "rolledback" /\ sqLock = w
        /\ sqPc[v] = "begin" /\ sqOp[v].op \in {"store", "delete"}

(***************************************************************************)
(* CSVDatabase under concurrent workers.  The class takes no lock; each    *)
(* open(), and the flush of the buffered text when the file is closed, is  *)
(* one step.  A file opened with "a" writes at the end of the file, one    *)
(* opened with "w" is emptied and written from its start; lines stand for  *)
(* equally long stretches of the file.                                     *)
(***************************************************************************)
CSVCalls ==
    [op : {"store"}, pr_no : PrNos, sentence : {"foo"}]
        \cup [op : {"delete"}, pr_no : PrNos, sentence : {""}]

InitCSV ==
    /\ cvFile = NoFile
    /\ cvPc = [w \in Contenders |-> "idle"]
    /\ cvOp = [w \in Contenders |-> NoCall]
    /\ cvHeader = [w \in Contenders |-> FALSE]
    /\ cvRows = [w \in Contenders |-> <<>>]
    /\ cvCalls = [w \in Contenders |-> 0]
    /\ cvLive = {}
    /\ IdlePR
    /\ IdleDoc
    /\ IdleKey
    /\ IdleCache
    /\ IdleSQL
    /\ IdleAgain
    /\ IdlePool
    /\ IdleGen
    /\ IdleText
    /\ IdleMemo
    /\ IdleFoot

DeleteRunning(pr_no) ==
    \E v \in Contenders : cvPc[v] # "idle" /\ cvOp[v].op = "delete" /\ cvOp[v].pr_no = pr_no

\* a worker enters store_sentence or delete_sentence
CSVStartCall(w, op) ==
    /\ cvPc[w] = "idle"
    /\ cvCalls[w] < MaxCalls
    /\ cvCalls' = [cvCalls EXCEPT ![w] = @ + 1]
    /\ cvOp' = [cvOp EXCEPT ![w] = op]
    /\ cvPc' = [cvPc EXCEPT ![w] = "begin"]
    /\ cvLive' = IF op.op = "delete" THEN cvLive \ {op.pr_no} ELSE cvLive
    /\ UNCHANGED <<cvFile, cvHeader, cvRows>>
    /\ UNCHANGED notCSV

\* store_sentence: write_header = not self.path.exists()
CSVCheckExists(w) ==
    /\ cvPc[w] = "begin" /\ cvOp[w].op = "store"
    /\ cvHeader' = [cvHeader EXCEPT ![w] = ~cvFile.exists]
    /\ cvPc' = [cvPc EXCEPT ![w] = "open"]
    /\ UNCHANGED <<cvFile, cvOp, cvRows, cvCalls, cvLive>>
    /\ UNCHANGED notCSV

\* store_sentence: open(self.path, "a") creates the file when it is missing
CSVOpenAppend(w) ==
    /\ cvPc[w] = "open"
    /\ cvFile' = [cvFile EXCEPT !.exists = TRUE]
    /\ cvPc' = [cvPc EXCEPT ![w] = "write"]
    /\ UNCHANGED <<cvOp, cvHeader, cvRows, cvCalls, cvLive>>
    /\ UNCHANGED notCSV

\* store_sentence: the header, if write_header, and the row reach the end of the
\* file when the with-block closes it
CSVAppendClose(w) ==
    /\ cvPc[w] = "write"
    /\ cvFile' = [cvFile EXCEPT !.lines =
           @ \o (IF cvHeader[w] THEN <<HeaderRow>> ELSE <<>>)
             \o <<Row(TheRepo, cvOp[w].pr_no, cvOp[w].sentence)>>]
    /\ cvLive' = IF DeleteRunning(cvOp[w].pr_no) THEN cvLive ELSE cvLive \cup {cvOp[w].pr_no}
    /\ cvPc' = [cvPc EXCEPT ![w] = "idle"]
    /\ UNCHANGED <<cvOp, cvHeader, cvRows, cvCalls>>
    /\ UNCHANGED notCSV

\* delete_sentence: the first with-block reads the file and keeps the other
\* rows; open() of a missing file raises and ends the call
CSVReadRows(w) ==
    /\ cvPc[w] = "begin" /\ cvOp[w].op = "delete"
    /\ IF cvFile.exists
       THEN /\ cvRows' = [cvRows EXCEPT ![w] =
                   CSVKeep(ReadRows(cvFile.lines), TheRepo, cvOp[w].pr_no)]
            /\ cvPc' = [cvPc EXCEPT ![w] = "truncate"]
       ELSE /\ cvPc' = [cvPc EXCEPT ![w] = "idle"]
            /\ UNCHANGED cvRows
    /\ UNCHANGED <<cvFile, cvOp, cvHeader, cvCalls, cvLive>>
    /\ UNCHANGED notCSV

\* delete_sentence: open(self.path, "w") empties the file
CSVOpenWrite(w) ==
    /\ cvPc[w] = "truncate"
    /\ cvFile' = [exists |-> TRUE, lines |-> <<>>]
    /\ cvPc' = [cvPc EXCEPT ![w] = "rewrite"]
    /\ UNCHANGED <<cvOp, cvHeader, cvRows, cvCalls, cvLive>>
    /\ UNCHANGED notCSV

\* text written from the start of a file over what the file holds by then
Overlay(lines, text) ==
    IF Len(lines) > Len(text) THEN text \o SubSeq(lines, Len(text) + 1, Len(lines)) ELSE text

\* delete_sentence: writeheader() and writerows(rows) reach the file, from its
\* start, when the second with-block closes it
CSVRewriteClose(w) ==
    /\ cvPc[w] = "rewrite"
    /\ cvFile' = [cvFile EXCEPT !.lines = Overlay(@, <<HeaderRow>> \o cvRows[w])]
    /\ cvRows' = [cvRows EXCEPT ![w] = <<>>]
    /\ cvPc' = [cvPc EXCEPT ![w] = "idle"]
    /\ UNCHANGED <<cvOp, cvHeader, cvCalls, cvLive>>
    /\ UNCHANGED notCSV

NextCSV ==
    \E w \in Contenders :
        \/ \E op \in CSVCalls : CSVStartCall(w, op)
        \/ CSVCheckExists(w)
        \/ CSVOpenAppend(w)
        \/ CSVAppendClose(w)
        \/ CSVReadRows(w)
        \/ CSVOpenWrite(w)
        \/ CSVRewriteClose(w)

SpecCSV == InitCSV /\ [][NextCSV]_vars

CSVQuiet == \A w \in Contenders : cvPc[w] = "idle"

HeaderCount(lines) == Cardinality({i \in 1..Len(lines) : lines[i] = HeaderRow})

\* C10: whenever no store_sentence or delete_sentence call is running, the file
\* holds a row for every key that was stored and not deleted since, and at most
\* one header row.
C10_ConcurrentCSVKeepsRows ==
    CSVQuiet =>
        /\ \A pr_no \in cvLive :
               \E i \in 1..Len(cvFile.lines) : Matches(cvFile.lines[i], TheRepo, pr_no)
        /\ HeaderCount(cvFile.lines) <= 1

(***************************************************************************)
(* The worker pools: ReleaseNotes.load_reviewers, which submits            *)
(* pr.set_reviewers for every PullRequest line to a ThreadPoolExecutor,    *)
(* and ThreadPoolStrategy.execute_parallel, which submits arbitrary tasks. *)
(* A worker that takes a set_reviewers task starts the two threads of      *)
(* set_reviewers; the original of a backport is not itself a backport.     *)
(***************************************************************************)
\* longest document, and largest number of tasks, of the pool specification
MaxPoolLines == 2

\* load_reviewers: max_workers = min(10, len(pr_changes))
PoolCap == 10

Min(a, b) == IF a <= b THEN a ELSE b

PlainPRLine == [kind |-> "pr", id |-> 1, sha |-> NoStr, ctype |-> None, labels |-> {},
                reverted |-> NoStr]

FeatPRLine == [kind |-> "pr", id |-> 2, sha |-> NoStr, ctype |-> "feat", labels |-> {},
               reverted |-> NoStr]

CommitLine == [kind |-> "commit", id |-> 0, sha |-> CommitSha, ctype |-> None, labels |-> {},
               reverted |-> NoStr]

PoolLines == {NoChange, PlainPRLine, FeatPRLine, CommitLine}

PoolDocs == UNION {[1..n -> PoolLines] : n \in 0..MaxPoolLines}

\* pr_changes: the lines whose change is a PullRequest
PrChanges(d) == {i \in DOMAIN d : d[i].kind = "pr"}

\* the positions a task can have: line numbers, or indexes of the task list
TaskIds == 1..MaxPoolLines

\* max_workers given to ThreadPoolStrategy
StrategyWorkers == {1, 2}

NotSerialized == [called |-> FALSE, types |-> {}, labels |-> {}, grouped |-> FALSE]

InitPool ==
    /\ \/ /\ plKind = "load"
          /\ doc \in PoolDocs
          /\ plMax = Min(PoolCap, Cardinality(PrChanges(doc)))
          /\ plTask = [i \in PrChanges(doc) |-> "none"]
          /\ plBackport \in [PrChanges(doc) -> BOOLEAN]
       \/ /\ plKind = "strategy"
          /\ doc = <<>>
          /\ plMax \in StrategyWorkers
          /\ \E n \in 0..MaxPoolLines : plTask = [i \in 1..n |-> "none"]
          /\ plBackport = [i \in DOMAIN plTask |-> FALSE]
    /\ plT1 = [i \in DOMAIN plTask |-> "none"]
    /\ plT2 = [i \in DOMAIN plTask |-> "none"]
    /\ plO1 = [i \in DOMAIN plTask |-> "none"]
    /\ plCall = "idle"
    /\ plOrder = <<>>
    /\ out = <<>>
    /\ outArgs = NotSerialized
    /\ IdlePR
    /\ IdleKey
    /\ IdleCache
    /\ IdleSQL
    /\ IdleCSV
    /\ IdleAgain
    /\ IdleGen
    /\ IdleText
    /\ IdleMemo
    /\ IdleFoot

\* the call begins: with no task it returns at once, else every task is
\* submitted to the executor
PoolSubmit ==
    /\ plCall = "idle"
    /\ IF DOMAIN plTask = {}
       THEN plCall' = "returned" /\ UNCHANGED plTask
       ELSE plCall' = "waiting" /\ plTask' = [i \in DOMAIN plTask |-> "queued"]
    /\ UNCHANGED <<plKind, plMax, plBackport, plT1, plT2, plO1, plOrder>>
    /\ UNCHANGED docVars
    /\ UNCHANGED notPool

Running == {i \in DOMAIN plTask : plTask[i] = "running"}

\* a worker thread of the executor takes the oldest queued task; there are at
\* most max_workers worker threads.  A set_reviewers task starts its two
\* threads: _get_reviewers calls get_pr_reviewers, _get_original_reviewers
\* calls get_pr when the PR is a backport and returns at once when it is not
PoolRun(i) ==
    /\ i \in DOMAIN plTask
    /\ plCall \in {"waiting", "failing"}
    /\ plTask[i] = "queued"
    /\ \A j \in DOMAIN plTask : j < i => plTask[j] # "queued"
    /\ Cardinality(Running) < plMax
    /\ plTask' = [plTask EXCEPT ![i] = "running"]
    /\ IF plKind = "load"
       THEN /\ plT1' = [plT1 EXCEPT ![i] = "fetching"]
            /\ plT2' = [plT2 EXCEPT ![i] = IF plBackport[i] THEN "fetching" ELSE "done"]
       ELSE UNCHANGED <<plT1, plT2>>
    /\ UNCHANGED <<plKind, plMax, plCall, plBackport, plO1, plOrder>>
    /\ UNCHANGED docVars
    /\ UNCHANGED notPool

\* a task of execute_parallel returns
PoolTaskReturn(i) ==
    /\ i \in DOMAIN plTask
    /\ plKind = "strategy"
    /\ plTask[i] = "running"
    /\ plTask' = [plTask EXCEPT ![i] = "returned"]
    /\ plOrder' = Append(plOrder, i)
    /\ UNCHANGED <<plKind, plMax, plCall, plBackport, plT1, plT2, plO1>>
    /\ UNCHANGED docVars
    /\ UNCHANGED notPool

\* a task of execute_parallel raises; the future keeps the exception
PoolTaskRaise(i) ==
    /\ i \in DOMAIN plTask
    /\ plKind = "strategy"
    /\ plTask[i] = "running"
    /\ plTask' = [plTask EXCEPT ![i] = "raised"]
    /\ plOrder' = Append(plOrder, i)
    /\ UNCHANGED <<plKind, plMax, plCall, plBackport, plT1, plT2, plO1>>
    /\ UNCHANGED docVars
    /\ UNCHANGED notPool

\* _get_reviewers: get_pr_reviewers has answered
PoolGetReviewersOk(i) ==
    /\ i \in DOMAIN plTask
    /\ plT1[i] = "fetching"
    /\ plT1' = [plT1 EXCEPT ![i] = "done"]
    /\ UNCHANGED <<plKind, plMax, plCall, plTask, plBackport, plT2, plO1, plOrder>>
    /\ UNCHANGED docVars
    /\ UNCHANGED notPool

\* _get_reviewers: get_pr_reviewers raises; the exception ends the thread
PoolGetReviewersFail(i) ==
    /\ i \in DOMAIN plTask
    /\ plT1[i] = "fetching"
    /\ plT1' = [plT1 EXCEPT ![i] = "raised"]
    /\ UNCHANGED <<plKind, plMax, plCall, plTask, plBackport, plT2, plO1, plOrder>>
    /\ UNCHANGED docVars
    /\ UNCHANGED notPool

\* _get_original_reviewers: get_pr has answered, backport_of.set_reviewers()
\* starts the threads of the original, whose _get_reviewers fetches
PoolGetPROk(i) ==
    /\ i \in DOMAIN plTask
    /\ plT2[i] = "fetching"
    /\ plT2' = [plT2 EXCEPT ![i] = "original"]
    /\ plO1' = [plO1 EXCEPT ![i] = "fetching"]
    /\ UNCHANGED <<plKind, plMax, plCall, plTask, plBackport, plT1, plOrder>>
    /\ UNCHANGED docVars
    /\ UNCHANGED notPool

\* _get_original_reviewers: get_pr raises; the exception ends the thread
PoolGetPRFail(i) ==
    /\ i \in DOMAIN plTask
    /\ plT2[i] = "fetching"
    /\ plT2' = [plT2 EXCEPT ![i] = "raised"]
    /\ UNCHANGED <<plKind, plMax, plCall, plTask, plBackport, plT1, plO1, plOrder>>
    /\ UNCHANGED docVars
    /\ UNCHANGED notPool

\* the original's get_pr_reviewers has answered; backport_of.set_reviewers()
\* joins its threads and returns, which ends _get_original_reviewers
PoolOriginalOk(i) ==
    /\ i \in DOMAIN plTask
    /\ plO1[i] = "fetching"
    /\ plO1' = [plO1 EXCEPT ![i] = "done"]
    /\ plT2' = [plT2 EXCEPT ![i] = "done"]
    /\ UNCHANGED <<plKind, plMax, plCall, plTask, plBackport, plT1, plOrder>>
    /\ UNCHANGED docVars
    /\ UNCHANGED notPool

\* the original's get_pr_reviewers raises in its thread; backport_of.set_reviewers()
\* joins its threads and returns all the same
PoolOriginalFail(i) ==
    /\ i \in DOMAIN plTask
    /\ plO1[i] = "fetching"
    /\ plO1' = [plO1 EXCEPT ![i] = "raised"]
    /\ plT2' = [plT2 EXCEPT ![i] = "done"]
    /\ UNCHANGED <<plKind, plMax, plCall, plTask, plBackport, plT1, plOrder>>
    /\ UNCHANGED docVars
    /\ UNCHANGED notPool

\* set_reviewers has joined both threads, however they ended, and returns
PoolJoin(i) ==
    /\ i \in DOMAIN plTask
    /\ plKind = "load"
    /\ plTask[i] = "running"
    /\ plT1[i] \in {"done", "raised"}
    /\ plT2[i] \in {"done", "raised"}
    /\ plTask' = [plTask EXCEPT ![i] = "returned"]
    /\ plOrder' = Append(plOrder, i)
    /\ UNCHANGED <<plKind, plMax, plCall, plBackport, plT1, plT2, plO1>>
    /\ UNCHANGED docVars
    /\ UNCHANGED notPool

\* future.result() raises the exception the future keeps: load_reviewers asks
\* the futures in the order of submission, execute_parallel as they complete
PoolResultRaises ==
    /\ plCall = "waiting"
    /\ \E i \in DOMAIN plTask :
        /\ plTask[i] = "raised"
        /\ plKind = "load" => \A j \in DOMAIN plTask : j < i => plTask[j] = "returned"
    /\ plCall' = "failing"
    /\ UNCHANGED <<plKind, plMax, plTask, plBackport, plT1, plT2, plO1, plOrder>>
    /\ UNCHANGED docVars
    /\ UNCHANGED notPool

Ended == {i \in DOMAIN plTask : plTask[i] \in {"returned", "raised"}}

\* the with-block is left by the exception: shutdown(wait=True) returns when
\* every submitted task has ended, then the exception reaches the caller
PoolExitRaise ==
    /\ plCall = "failing"
    /\ Ended = DOMAIN plTask
    /\ plCall' = "raised"
    /\ UNCHANGED <<plKind, plMax, plTask, plBackport, plT1, plT2, plO1, plOrder>>
    /\ UNCHANGED docVars
    /\ UNCHANGED notPool

\* every future has given its result; the with-block is left and the call returns
PoolReturn ==
    /\ plCall = "waiting"
    /\ \A i \in DOMAIN plTask : plTask[i] = "returned"
    /\ plCall' = "returned"
    /\ UNCHANGED <<plKind, plMax, plTask, plBackport, plT1, plT2, plO1, plOrder>>
    /\ UNCHANGED docVars
    /\ UNCHANGED notPool

\* serialize, flat, once load_reviewers has returned
PoolSerialize(et) ==
    /\ plKind = "load"
    /\ plCall = "returned"
    /\ ~outArgs.called
    /\ out' = SerializeFlat(doc, et, {})
    /\ outArgs' = [called |-> TRUE, types |-> et, labels |-> {}, grouped |-> FALSE]
    /\ UNCHANGED doc
    /\ UNCHANGED poolVars
    /\ UNCHANGED notPool

NextPool ==
    \/ PoolSubmit
    \/ PoolResultRaises
    \/ PoolExitRaise
    \/ PoolReturn
    \/ \E et \in {{}, {"feat"}} : PoolSerialize(et)
    \/ \E i \in TaskIds :
        \/ PoolRun(i)
        \/ PoolTaskReturn(i)
        \/ PoolTaskRaise(i)
        \/ PoolGetReviewersOk(i)
        \/ PoolGetReviewersFail(i)
        \/ PoolGetPROk(i)
        \/ PoolGetPRFail(i)
        \/ PoolOriginalOk(i)
        \/ PoolOriginalFail(i)
        \/ PoolJoin(i)

SpecPool == InitPool /\ [][NextPool]_vars

\* the threads that are inside a remote fetch
FetchCount ==
    Cardinality({i \in DOMAIN plTask : plT1[i] = "fetching"})
        + Cardinality({i \in DOMAIN plTask : plT2[i] = "fetching"})
        + Cardinality({i \in DOMAIN plTask : plO1[i] = "fetching"})

\* C11: while load_reviewers runs, no more threads than the limit of its pool
\* are inside a remote fetch, and execute_parallel never has more than
\* max_workers tasks running.
C11_FanOutBounded ==
    /\ plKind = "load" => FetchCount <= plMax
    /\ plKind = "strategy" => Cardinality(Running) <= plMax

\* a unit of work has failed: its callable raised, or a fetch inside it raised
UnitFailed(i) ==
    \/ plTask[i] = "raised"
    \/ plT1[i] = "raised" \/ plT2[i] = "raised" \/ plO1[i] = "raised"

\* C12: when a unit of work has raised, load_reviewers or execute_parallel does
\* not return normally, and when control is back at the caller, by return or by
\* exception, no submitted task is queued or running.
C12_FailureSurfaces ==
    /\ plCall = "returned" => \A i \in DOMAIN plTask : ~UnitFailed(i)
    /\ plCall \in {"returned", "raised"} => Ended = DOMAIN plTask

\* C13: the flat output made after load_reviewers holds every line that has no
\* change or whose type is not excluded exactly once, holds no other line, and
\* holds the lines in the order of the document, in whatever order the
\* concurrent fetches have ended.
C13_FlatOrderPreserved ==
    (plKind = "load" /\ outArgs.called) =>
        /\ \A j \in 1..Len(out) : out[j].k = "line" /\ out[j].idx \in DOMAIN doc
        /\ \A j, k \in 1..Len(out) : j < k => out[j].idx < out[k].idx
        /\ \A i \in DOMAIN doc :
               (~HasChange(doc[i]) \/ ~IsExcludedType(doc[i], outArgs.types))
                   => \E j \in 1..Len(out) : out[j].idx = i
        /\ \A j \in 1..Len(out) :
               ~HasChange(doc[out[j].idx]) \/ ~IsExcludedType(doc[out[j].idx], outArgs.types)

\* the set_reviewers of the second line ended before that of the first, and
\* both lines were emitted
C13_Witness ==
    /\ plKind = "load" /\ outArgs.called
    /\ Len(plOrder) = 2 /\ plOrder[1] > plOrder[2]
    /\ Len(out) = 2

(***************************************************************************)
(* set_reviewers called a second time on the PullRequest of the line,      *)
(* after the first call has returned; GitHub holds the same data and       *)
(* answers every request.                                                  *)
(***************************************************************************)
SetReviewersAgain ==
    /\ agRound = 0
    /\ call[0] = "returned"
    /\ agRound' = 2
    /\ agFirst' = entReviewers
    /\ call' = [call EXCEPT ![0] = "called"]
    /\ UNCHANGED <<remote, entNum, entReviewers, entBackportOf, t1, t2, loadState>>
    /\ UNCHANGED notAgain

NextAgain ==
    \/ LoadReviewers
    \/ LoadReviewersReturn
    \/ SetReviewersAgain
    \/ \E d \in Depths :
        \/ StartThreads(d)
        \/ GetReviewersOk(d)
        \/ SetBackportOfSkip(d)
        \/ SetBackportOfOk(d)
        \/ CallOriginal(d)
        \/ ReturnOriginal(d)
        \/ Join(d)

SpecAgain == InitPR /\ [][NextAgain]_vars

\* C14: the second set_reviewers returns the reviewer set the first returned,
\* and change.reviewers holds it again, for non-backports and for backports.
C14_SetReviewersIdempotent ==
    (agRound = 2 /\ call[0] = "returned") => entReviewers[0] = agFirst[0]

\* the second call on a resolved backport has returned a reviewer set that
\* holds a reviewer of the original
C14_Witness ==
    /\ agRound = 2 /\ call[0] = "returned"
    /\ entBackportOf[0]
    /\ entReviewers[0] \cap SetOrEmpty(entReviewers[1]) # {}

\* C15: in the second set_reviewers call, made when reviewers is populated, no
\* remote request is made: get_pr_reviewers is answered neither for the PR nor
\* for its backport_of.
C15_SecondCallFetchesNothing ==
    agRound = 2 =>
        /\ call[0] \in {"joining", "returned"} => t1[0] \notin {"done", "raised"}
        /\ (t2[0] = "calling" /\ call[1] \in {"joining", "returned"})
               => t1[1] \notin {"done", "raised"}

(***************************************************************************)
(* get_author over a chain of backports: PR 1 may be a backport of PR 2,   *)
(* PR 2 may be a backport of PR 3, PR 3 is an original.                    *)
(***************************************************************************)
ChainPRs == {1, 2, 3}

\* the titles PR n of the chain can carry: plain, or a backport of PR n + 1
ChainTitles(n) == IF n < 3 THEN {PlainTitle, BackportTitle(n + 1)} ELSE {PlainTitle}

InitAuthor ==
    /\ \E titles \in {f \in [ChainPRs -> UNION {ChainTitles(n) : n \in ChainPRs}] :
                          \A n \in ChainPRs : f[n] \in ChainTitles(n)} :
       \E authors \in [ChainPRs -> Users] :
           remote = [n \in ChainPRs |-> [title |-> titles[n], author |-> authors[n],
                                         merged_by |-> authors[n], reviews |-> {}]]
    /\ entNum = [d \in Depths |-> IF d = 0 THEN 1 ELSE 0]
    /\ entReviewers = [d \in Depths |-> NoneSet]
    /\ entBackportOf = [d \in Depths |-> FALSE]
    /\ call = [d \in Depths |-> "idle"]
    /\ t1 = [d \in Depths |-> "none"]
    /\ t2 = [d \in Depths |-> "none"]
    /\ loadState = "idle"
    /\ IdleDoc
    /\ IdleKey
    /\ IdleCache
    /\ IdleSQL
    /\ IdleCSV
    /\ IdleAgain
    /\ IdlePool
    /\ IdleGen
    /\ IdleText
    /\ IdleMemo
    /\ IdleFoot

SpecAuthor == InitAuthor /\ [][NextPR]_vars

\* PullRequest.get_author of the PullRequest object at depth d
GetAuthor(d) == IF entBackportOf[d] THEN Author(d + 1) ELSE Author(d)

\* the depth of the last PullRequest reached over resolved backport_of links
RECURSIVE ChainEnd(_)
ChainEnd(d) == IF d < MaxDepth /\ entBackportOf[d] THEN ChainEnd(d + 1) ELSE d

\* C16: get_author of the PR of the line is the author of the PR at the end
\* of its resolved backport chain: its own author for a non-backport, the
\* original's for a backport, the author of O for a chain B2 -> B1 -> O.
C16_AuthorOfChainEnd == GetAuthor(0) = Author(ChainEnd(0))

(***************************************************************************)
(* serialize with grouping.group_by_type over documents whose changes have *)
(* standard types, types outside type_order, and no type.                  *)
(***************************************************************************)
\* longest document of the grouping specification
MaxGroupLines == 3

\* conventional types of the grouped documents; "deps" and "wip" are not in type_order
GroupTypes == {None, "feat", "fix", "deps", "wip"}

NoChangeKind == "nochange"

\* line i of a grouped document: a heading or blank line, or PR i with type t
GroupLine(i, t) ==
    IF t = NoChangeKind THEN NoChange
    ELSE [kind |-> "pr", id |-> i, sha |-> NoStr, ctype |-> t, labels |-> {}, reverted |-> NoStr]

GroupDocs ==
    UNION {{[i \in 1..n |-> GroupLine(i, ts[i])] : ts \in [1..n -> GroupTypes \cup {NoChangeKind}]}
               : n \in 0..MaxGroupLines}

InitGroup ==
    /\ doc \in GroupDocs
    /\ out = <<>>
    /\ outArgs = NotSerialized
    /\ IdlePR
    /\ IdleKey
    /\ IdleCache
    /\ IdleSQL
    /\ IdleCSV
    /\ IdleAgain
    /\ IdlePool
    /\ IdleGen
    /\ IdleText
    /\ IdleMemo
    /\ IdleFoot

NextGroup == \E et \in {{}, {"feat"}} : Serialize(et, {}, TRUE)

SpecGroup == InitGroup /\ [][NextGroup]_vars

\* positions of the headings and of the change lines of the output
HeadingPos == {j \in 1..Len(out) : out[j].k = "heading"}

LinePos == {j \in 1..Len(out) : out[j].k = "line"}

\* the heading under which position j stands
SectionOf(j) == CHOOSE h \in HeadingPos : h < j /\ \A g \in HeadingPos : g < j => g <= h

\* the conventional type of the first line under heading h
SectionType(h) == doc[out[h + 1].idx].ctype

\* place of a type in the order of sections: type_order, then the other types, then none
Rank(t) ==
    IF t = None THEN Len(TypeOrder) + 2
    ELSE IF InTypeOrder(t) THEN CHOOSE i \in 1..Len(TypeOrder) : TypeOrder[i] = t
    ELSE Len(TypeOrder) + 1

\* the change lines that the filters of the call leave
Surviving == {i \in DOMAIN doc : HasChange(doc[i])} \ Skipped(doc, outArgs.types, outArgs.labels)

\* C17: grouped output is a series of sections, none empty, in the order of
\* type_order, then the types outside it, then the untyped changes; a section
\* holds lines of one type only, no two sections have one type, a standard
\* section carries its type's heading and the untyped one the Other heading;
\* every surviving change line stands exactly once in the output, and the lines
\* of a section are in document order.
C17_GroupedSections ==
    (outArgs.called /\ outArgs.grouped) =>
        /\ \A j \in LinePos : \E h \in HeadingPos : h < j
        /\ \A h \in HeadingPos : h < Len(out) /\ out[h + 1].k = "line"
        /\ \A j \in LinePos : doc[out[j].idx].ctype = SectionType(SectionOf(j))
        /\ \A h1, h2 \in HeadingPos :
               h1 < h2 => /\ Rank(SectionType(h1)) <= Rank(SectionType(h2))
                          /\ SectionType(h1) # SectionType(h2)
        /\ \A h \in HeadingPos :
               /\ InTypeOrder(SectionType(h)) => out[h].h = TypeHeadings[Rank(SectionType(h))]
               /\ SectionType(h) = None => out[h].h = OtherHeading
        /\ \A i \in Surviving : Cardinality({j \in LinePos : out[j].idx = i}) = 1
        /\ \A j1, j2 \in LinePos :
               (j1 < j2 /\ SectionOf(j1) = SectionOf(j2)) => out[j1].idx < out[j2].idx

\* a document of a non-standard change, an untyped one and a fix, in this order:
\* the output has the fix section first, the section of "deps" next, Other last
C17_Witness ==
    /\ outArgs.called /\ outArgs.grouped
    /\ Len(doc) = 3
    /\ doc[1].ctype = "deps" /\ doc[2].ctype = None /\ HasChange(doc[2]) /\ doc[3].ctype = "fix"
    /\ Cardinality(HeadingPos) = 3
    /\ out[2] = LineItem(3) /\ out[5] = LineItem(1) /\ out[8] = LineItem(2)

\* C18: the Other heading stands at most once in grouped output.
C18_OneOtherHeading ==
    (outArgs.called /\ outArgs.grouped) =>
        Cardinality({h \in HeadingPos : out[h].h = OtherHeading}) <= 1

(***************************************************************************)
(* The filters of serialize, flat and grouped.                              *)
(***************************************************************************)
\* the type of the change of line i is one of the excluded types of the call
TypeExcluded(i) == doc[i].ctype # None /\ doc[i].ctype \in outArgs.types

\* a label of the change of line i is one of the excluded labels of the call
LabelExcluded(i) == doc[i].labels \cap outArgs.labels # {}

\* line i is a revert of a change of the document, or is reverted by a line of it
RevertSuppressed(i) ==
    \/ /\ IsRevert(doc[i])
       /\ \E j \in DOMAIN doc : HasChange(doc[j]) /\ IdText(doc[j]) = doc[i].reverted
    \/ /\ doc[i].kind = "pr"
       /\ \E j \in DOMAIN doc : IsRevert(doc[j]) /\ doc[j].reverted = IdText(doc[i])

\* the change lines that an output holds
ChangeLines(items) ==
    {items[j].idx : j \in {k \in 1..Len(items) : items[k].k = "line" /\ HasChange(doc[items[k].idx])}}

\* C19: after serialize, flat or grouped, the line of a change is in the output
\* if and only if its type is not excluded, none of its labels is excluded and
\* it is not revert-suppressed; the flat and the grouped output of the document
\* under the filters of the call hold the same change lines.
C19_SameFiltersBothModes ==
    outArgs.called =>
        /\ \A i \in DOMAIN doc :
               HasChange(doc[i]) =>
                   (Emitted(i) <=> ~TypeExcluded(i) /\ ~LabelExcluded(i) /\ ~RevertSuppressed(i))
        /\ ChangeLines(SerializeFlat(doc, outArgs.types, outArgs.labels))
               = ChangeLines(SerializeGrouped(doc, outArgs.types, outArgs.labels))

\* a grouped call with both filters set: a fix with an excluded label is
\* dropped and a fix without one is kept
C19_Witness ==
    /\ outArgs.called /\ outArgs.grouped
    /\ outArgs.types = {"feat"} /\ outArgs.labels = {"skip"}
    /\ Len(doc) = 2
    /\ HasChange(doc[1]) /\ doc[1].labels = {"skip"} /\ doc[1].ctype = "fix" /\ ~Emitted(1)
    /\ HasChange(doc[2]) /\ doc[2].ctype = "fix" /\ Emitted(2)

\* C20: every call of a sequence of store_sentence, get_sentence and
\* delete_sentence calls, made by one thread from an empty, never-written
\* cache, has the same result on CSVDatabase and on SQLiteDatabase: the value
\* returned, absent, or an error.
C20_BackendsAgree == lastOp.csv = lastOp.sql

(***************************************************************************)
(* ReleaseNotesGenerator: generate(tag) regenerates the notes, processes   *)
(* the lines one after the other and returns the serialised notes;         *)
(* update_on_github(new_body, tag) writes them back.                       *)
(***************************************************************************)
\* longest release body of the generator specification
MaxGenLines == 2

\* ReleaseNotesLine.from_string: a line without PR URL, the line of PR 1, and a
\* "made their first contribution" line that links PR 2
GenLines == {[pr_no |-> None, is_new_contributor |-> FALSE],
             [pr_no |-> "1", is_new_contributor |-> FALSE],
             [pr_no |-> "2", is_new_contributor |-> TRUE]}

GenBodies == UNION {[1..n -> GenLines] : n \in 0..MaxGenLines}

\* status codes of the answers to generate-notes and to the release update
HttpStatuses == {200, 403, 404, 500}

\* exclude_pr_types and exclude_pr_labels of the generator
GenExcludeTypes == {"chore"}

GenExcludeLabels == {"skip"}

\* message.content of the completion; None when the API sends no content
ChatContents == {None, "", "- ", "- sum", "sum"}

Raised == "raised"

\* an except clause that treats every HTTP error as a missing permission
RecoverableAny(status) == status >= 400

\* except HTTPError as e: if e.response.status_code != 403: raise e
Recoverable(status) == status = 403

\* Python truth value of an optional string
Truthy(t) == t # None /\ t # ""

\* pr_sentence.lstrip(" -")
LStrip(t) == CASE t = "- " -> "" [] t = "- sum" -> "sum" [] OTHER -> t

\* get_chat_response: openai_client of the package raises ValueError on None
\* content, the one generator.py imports returns message.content as it is
ChatResponse(client, content) ==
    IF client = "package" /\ content = None THEN Raised ELSE content

InitGen ==
    /\ gPc = "start"
    /\ gOld \in {b \in GenBodies : Len(b) <= 1}
    /\ gBody = [from |-> "none", status |-> 0, lines |-> <<>>]
    /\ gDone = <<>>
    /\ gDb \in [PrNos -> {Absent, "", "old"}]
    /\ gUpd = [status |-> 0, result |-> "none"]
    /\ IdlePR
    /\ IdleDoc
    /\ IdleKey
    /\ IdleCache
    /\ IdleSQL
    /\ IdleCSV
    /\ IdleAgain
    /\ IdlePool
    /\ IdleText
    /\ IdleMemo
    /\ IdleFoot

\* generate, lines 48-72: the answer to generate_release_notes decides the body
GenRegenerate(status, new_body) ==
    /\ gPc = "start"
    /\ IF status < 400
       THEN /\ gBody' = [from |-> "new", status |-> status, lines |-> new_body]
            /\ gPc' = "lines"
       ELSE IF Recoverable(status)
            THEN /\ gBody' = [from |-> "old", status |-> status, lines |-> gOld]
                 /\ gPc' = "lines"
            ELSE /\ gBody' = [gBody EXCEPT !.status = status]
                 /\ gPc' = "raised"
    /\ UNCHANGED <<gOld, gDone, gDb, gUpd>>
    /\ UNCHANGED notGen

\* _process_line, lines 98-101: the line is shown as it is and nothing is fetched
Ineligible(line) == line.pr_no = None \/ line.is_new_contributor

\* what _process_line has done to a line: the PR's type and labels once get_pr
\* has answered, the calls made, whether pr.reviewers was set, what the cache
\* held, the content of the completion, line.sentence, and whether it raised
NoOutcome == [pr_type |-> None, labels |-> {}, calls |-> {}, reviewers |-> FALSE,
              cached |-> Absent, content |-> "unasked", sentence |-> None, raised |-> FALSE]

\* line.pr.backport_no or line.pr_no
CacheKey(line, backport_no) == IF backport_no # None THEN backport_no ELSE line.pr_no

\* a _process_line that consults the cache before it computes the reviewers
CacheHitBeforeReviewers(got, stored) ==
    [got EXCEPT !.calls = {"get_pr", "get_sentence"}, !.cached = stored, !.sentence = stored]

\* _process_line, lines 111-121: _set_reviewers, then the stored sentence is used
CacheHit(got, stored) ==
    [got EXCEPT !.calls = {"get_pr", "get_pr_reviewers", "get_sentence"},
                !.reviewers = TRUE, !.cached = stored, !.sentence = stored]

\* ReleaseNotesGenerator._process_line
LineOutcome(line, pr_type, labels, backport_no, client, content, db) ==
    IF Ineligible(line) THEN NoOutcome
    ELSE LET got == [NoOutcome EXCEPT !.pr_type = pr_type, !.labels = labels,
                                      !.calls = {"get_pr"}]
             stored == db[CacheKey(line, backport_no)]
             answer == ChatResponse(client, content)
             miss == [got EXCEPT !.calls = {"get_pr", "get_pr_reviewers", "get_sentence",
                                            "get_text", "get_closed_issues",
                                            "get_chat_response"},
                                 !.reviewers = TRUE, !.cached = stored, !.content = content]
         IN IF pr_type \in GenExcludeTypes THEN got
            ELSE IF labels # {} /\ labels \cap GenExcludeLabels # {} THEN got
            ELSE IF Truthy(stored) THEN CacheHit(got, stored)
            ELSE IF answer = Raised THEN [miss EXCEPT !.raised = TRUE]
            ELSE IF ~Truthy(answer) THEN miss
            ELSE [miss EXCEPT !.calls = @ \cup {"store_sentence"}, !.sentence = LStrip(answer)]

\* generate, lines 73-74: _process_line of the next line; store_sentence adds a
\* row, and get_sentence keeps answering with the first row of a key
ProcessLine(pr_type, labels, backport_no, client, content) ==
    /\ gPc = "lines"
    /\ Len(gDone) < Len(gBody.lines)
    /\ LET line == gBody.lines[Len(gDone) + 1]
           o == LineOutcome(line, pr_type, labels, backport_no, client, content, gDb)
           key == CacheKey(line, backport_no)
       IN /\ gDone' = Append(gDone, o)
          /\ gDb' = IF "store_sentence" \in o.calls /\ gDb[key] = Absent
                    THEN [gDb EXCEPT ![key] = o.sentence]
                    ELSE gDb
          /\ gPc' = IF o.raised THEN "raised" ELSE gPc
    /\ UNCHANGED <<gOld, gBody, gUpd>>
    /\ UNCHANGED notGen

\* generate, lines 76-81: return release_notes.serialize(...)
GenReturn ==
    /\ gPc = "lines"
    /\ Len(gDone) = Len(gBody.lines)
    /\ gPc' = "returned"
    /\ UNCHANGED <<gOld, gBody, gDone, gDb, gUpd>>
    /\ UNCHANGED notGen

\* update_on_github with the notes generate returned
UpdateOnGithub(status) ==
    /\ gPc = "returned"
    /\ gUpd.result = "none"
    /\ gUpd' = [status |-> status,
                result |-> IF status < 400 \/ Recoverable(status) THEN "returned" ELSE "raised"]
    /\ UNCHANGED <<gPc, gOld, gBody, gDone, gDb>>
    /\ UNCHANGED notGen

NextGen ==
    \/ \E status \in HttpStatuses, new_body \in GenBodies : GenRegenerate(status, new_body)
    \/ \E pr_type \in {"fix", "chore"}, labels \in {{}, {"skip"}}, backport_no \in {None, "2"},
          client \in {"legacy", "package"}, content \in ChatContents :
           ProcessLine(pr_type, labels, backport_no, client, content)
    \/ GenReturn
    \/ \E status \in HttpStatuses : UpdateOnGithub(status)

SpecGen == InitGen /\ [][NextGen]_vars

\* C21: a 403 answer to generate-notes makes generate go on with the lines of
\* the release's existing body, and a 403 answer to update_release makes
\* update_on_github return; after any other error status generate has raised
\* with no line processed, and update_on_github has raised.
C21_PermissionDeniedIsRecoverable ==
    /\ gBody.status = 403 =>
           /\ gBody.from = "old" /\ gBody.lines = gOld
           /\ gPc = "raised" => \E i \in DOMAIN gDone : gDone[i].raised
    /\ (gBody.status >= 400 /\ gBody.status # 403) => gPc = "raised" /\ gDone = <<>>
    /\ gUpd.status = 403 => gUpd.result = "returned"
    /\ (gUpd.status >= 400 /\ gUpd.status # 403) => gUpd.result = "raised"

\* generate went on with the old body after a 403, processed its PR line and
\* returned; the update of the release was answered with 403 as well
C21_Witness ==
    /\ gBody.status = 403 /\ gPc = "returned"
    /\ \E i \in DOMAIN gDone : gDone[i].reviewers
    /\ gUpd.status = 403 /\ gUpd.result = "returned"

\* C22: when the completion of an eligible line has empty content, the line's
\* _process_line raises, so that generate fails, and no cache entry is stored.
C22_EmptySummaryIsError ==
    \A i \in DOMAIN gDone :
        ("get_chat_response" \in gDone[i].calls /\ ~Truthy(gDone[i].content))
            => gDone[i].raised /\ "store_sentence" \notin gDone[i].calls

\* line i of the body is eligible and neither its type nor a label is excluded
PassesGenFilters(i) ==
    /\ gBody.lines[i].pr_no # None
    /\ ~gBody.lines[i].is_new_contributor
    /\ gDone[i].pr_type \notin GenExcludeTypes
    /\ gDone[i].labels \cap GenExcludeLabels = {}

\* C27: for every eligible line that no filter excludes the reviewers of the PR
\* are computed, on a cache hit and on a miss; on a hit (the cache answered
\* with a sentence) neither the patch nor the closed issues are fetched, no
\* completion is asked for, nothing is stored, and line.sentence is the cached text.
C27_ReviewersDespiteCacheHit ==
    \A i \in DOMAIN gDone :
        PassesGenFilters(i) =>
            /\ gDone[i].reviewers
            /\ {"get_pr", "get_pr_reviewers", "get_sentence"} \subseteq gDone[i].calls
            /\ Truthy(gDone[i].cached) =>
                   /\ gDone[i].calls = {"get_pr", "get_pr_reviewers", "get_sentence"}
                   /\ gDone[i].sentence = gDone[i].cached
                   /\ ~gDone[i].raised

\* the cache held a sentence for the key of a line that passed the filters
C27_Witness ==
    \E i \in DOMAIN gDone :
        /\ PassesGenFilters(i)
        /\ gDone[i].cached = "old" /\ gDone[i].sentence = "old" /\ gDone[i].reviewers

(***************************************************************************)
(* The properties a PullRequest derives from its title: conventional_type  *)
(* and backport_no.                                                        *)
(***************************************************************************)
LowerLetters == <<"a", "b", "c", "d", "e", "f", "g", "h", "i", "j", "k", "l", "m", "n", "o",
                  "p", "q", "r", "s", "t", "u", "v", "w", "x", "y", "z">>

UpperLetters == <<"A", "B", "C", "D", "E", "F", "G", "H", "I", "J", "K", "L", "M", "N", "O",
                  "P", "Q", "R", "S", "T", "U", "V", "W", "X", "Y", "Z">>

\* [a-zA-Z]
IsLetter(c) == \E i \in 1..Len(LowerLetters) : LowerLetters[i] = c \/ UpperLetters[i] = c

\* length of the longest run of letters at the start of s
RECURSIVE LetterRun(_)
LetterRun(s) == IF s # <<>> /\ IsLetter(Head(s)) THEN 1 + LetterRun(Tail(s)) ELSE 0

\* (?:\(([^)]+)\))?: matched at the start of s
ScopeAndColon(s) ==
    \/ s # <<>> /\ s[1] = ":"
    \/ /\ Len(s) >= 4 /\ s[1] = "("
       /\ \E j \in 3..(Len(s) - 1) :
              /\ s[j] = ")" /\ s[j + 1] = ":"
              /\ \A k \in 2..(j - 1) : s[k] # ")"

\* get_conventional_type: ^([a-zA-Z]{2,8})(?:\(([^)]+)\))?: matched at the start
\* of msg; after the letters the pattern wants "(" or ":", so the letters it
\* takes are the whole run
ConventionalType(msg) ==
    IF msg = <<>> \/ Len(msg) < 3 THEN NoStr
    ELSE LET n == LetterRun(msg)
         IN IF n >= 2 /\ n <= 8 /\ ScopeAndColon(SubSeq(msg, n + 1, Len(msg)))
            THEN SubSeq(msg, 1, n) ELSE NoStr

\* the type tokens of the titles: 1, 3, 8 and 9 letters, in lower, mixed and upper case
TitleTypes == {<<"f">>, <<"f", "i", "x">>, <<"F", "i", "x">>, <<"F", "I", "X">>,
               <<"r", "e", "f", "a", "c", "t", "o", "r">>,
               <<"r", "e", "f", "a", "c", "t", "o", "r", "s">>}

\* what follows the type: a colon, a scope and a colon, a blank before the colon
TitleSeparators == {<<":">>, <<"(", "u", "i", ")", ":">>, <<" ", ":">>}

\* the end of the title: no marker, the marker, the marker and a blank, the
\* marker with text after it
TitleEnds == {NoStr, <<" ">> \o BackportMarker \o Str(12) \o <<")">>,
              <<" ">> \o BackportMarker \o Str(12) \o <<")", " ">>,
              <<" ">> \o BackportMarker \o Str(12) \o <<")", " ", "x">>}

InitTitle ==
    /\ txIn \in [lead : {NoStr, <<" ">>}, type : TitleTypes, sep : TitleSeparators,
                 end : TitleEnds]
    /\ txText = txIn.lead \o txIn.type \o txIn.sep \o <<" ", "x">> \o txIn.end
    /\ txOut = <<>>
    /\ IdlePR
    /\ IdleDoc
    /\ IdleKey
    /\ IdleCache
    /\ IdleSQL
    /\ IdleCSV
    /\ IdleAgain
    /\ IdlePool
    /\ IdleGen
    /\ IdleMemo
    /\ IdleFoot

\* PullRequest.conventional_type and PullRequest.backport_no of the title
ParseTitle ==
    /\ txOut = <<>>
    /\ txOut' = [conventional_type |-> ConventionalType(txText),
                 backport_no |-> BackportNo(txText)]
    /\ UNCHANGED <<txIn, txText>>
    /\ UNCHANGED notText

SpecTitle == InitTitle /\ [][ParseTitle]_vars

LowerChar(c) ==
    IF \E i \in 1..Len(UpperLetters) : UpperLetters[i] = c
    THEN LowerLetters[CHOOSE i \in 1..Len(UpperLetters) : UpperLetters[i] = c]
    ELSE c

LowerCase(s) == [i \in 1..Len(s) |-> LowerChar(s[i])]

\* the type token is well-formed: 2 to 8 letters, a colon or a scope and a colon next
WellFormedType == Len(txIn.type) \in 2..8 /\ txIn.sep # <<" ", ":">>

\* C23: for a title '<type>(<scope>): <text> (backport #<n>)' with a type of 2
\* to 8 letters in any case, leading white space or not, scope or not,
\* conventional_type is the type in lower case and backport_no is n;
\* backport_no is absent when text follows the marker or there is no marker;
\* conventional_type is absent when the type has fewer than 2 or more than 8
\* letters or the colon does not follow at once.
C23_TitleProperties ==
    txOut # <<>> =>
        /\ WellFormedType => txOut.conventional_type = LowerCase(txIn.type)
        /\ ~WellFormedType => txOut.conventional_type = NoStr
        /\ txIn.end = <<" ">> \o BackportMarker \o Str(12) \o <<")">>
               => txOut.backport_no = Str(12)
        /\ (txIn.end = NoStr \/ txIn.end[Len(txIn.end)] = "x") => txOut.backport_no = NoStr

(***************************************************************************)
(* The properties a PullRequest derives from its body: is_revert and       *)
(* reverted_pr_number, by REVERT_PATTERNS.                                 *)
(***************************************************************************)
\* [\w-], \s and \d
InClass(c, class) ==
    CASE class = "word" -> IsLetter(c) \/ IsDigit(c) \/ c \in {"_", "-"}
      [] class = "space" -> IsSpace(c)
      [] class = "digit" -> IsDigit(c)

\* how many characters of the class stand in s from position p on
RECURSIVE Run(_, _, _)
Run(s, p, class) ==
    IF p <= Len(s) /\ InClass(s[p], class) THEN 1 + Run(s, p + 1, class) ELSE 0

\* the literal lit stands in s at position p
LitAt(s, p, lit) == p + Len(lit) - 1 <= Len(s) /\ SubSeq(s, p, p + Len(lit) - 1) = lit

\* [\w-]+/[\w-]+ at position p: the position after it, 0 when it does not match
OwnerRepoEnd(s, p) ==
    LET a == p + Run(s, p, "word")
        b == a + 1 + Run(s, a + 1, "word")
    IN IF a > p /\ LitAt(s, a, <<"/">>) /\ b > a + 1 THEN b ELSE 0

\* (\d+) after the literal lit at position p: the digits, NoStr when it does not match
DigitsAfter(s, p, lit) ==
    IF p > 0 /\ LitAt(s, p, lit) /\ Run(s, p + Len(lit), "digit") > 0
    THEN SubSeq(s, p + Len(lit), p + Len(lit) + Run(s, p + Len(lit), "digit") - 1)
    ELSE NoStr

GithubUrl == <<"h", "t", "t", "p", "s", ":", "/", "/", "g", "i", "t", "h", "u", "b", ".", "c", "o", "m", "/">>

\* [Rr]everts at position p
VerbAt(s, p) ==
    p <= Len(s) /\ s[p] \in {"R", "r"} /\ LitAt(s, p + 1, <<"e", "v", "e", "r", "t", "s">>)

\* REVERT_PATTERNS[k] matched at position p: group(1), NoStr when it does not match
MatchAt(s, p, k) ==
    LET a == p + 7 + Run(s, p + 7, "space")
    IN IF ~VerbAt(s, p) \/ a = p + 7 THEN NoStr
       ELSE CASE k = 1 -> DigitsAfter(s, OwnerRepoEnd(s, a), <<"#">>)
              [] k = 2 -> IF LitAt(s, a, GithubUrl)
                          THEN DigitsAfter(s, OwnerRepoEnd(s, a + Len(GithubUrl)), <<"/", "p", "u", "l", "l", "/">>)
                          ELSE NoStr
              [] k = 3 -> DigitsAfter(s, a, <<"#">>)

\* pattern.search(body): group(1) of the leftmost match, NoStr when there is none
Search(s, k) ==
    IF \E p \in 1..Len(s) : MatchAt(s, p, k) # NoStr
    THEN MatchAt(s, CHOOSE p \in 1..Len(s) :
                        /\ MatchAt(s, p, k) # NoStr
                        /\ \A q \in 1..(p - 1) : MatchAt(s, q, k) = NoStr, k)
    ELSE NoStr

\* PullRequest.is_revert
IsRevertBody(body) == body # <<>> /\ \E k \in 1..3 : Search(body, k) # NoStr

\* PullRequest.reverted_pr_number
RevertedPrNumber(body) ==
    IF body = <<>> \/ \A k \in 1..3 : Search(body, k) = NoStr THEN NoStr
    ELSE Search(body, CHOOSE k \in 1..3 : /\ Search(body, k) # NoStr
                                          /\ \A j \in 1..(k - 1) : Search(body, j) = NoStr)

\* the verb of the body in three letter cases, and no verb
BodyVerbs == {<<"R", "e", "v", "e", "r", "t", "s", " ">>, <<"r", "e", "v", "e", "r", "t", "s", " ">>, <<"R", "E", "V", "E", "R", "T", "S", " ">>, NoStr}

\* what follows the verb: owner/repo#12, the URL of pull request 12, #12, a
\* commit, nothing
ShortRef == <<"o", "/", "r", "#", "1", "2">>

UrlRef == <<"h", "t", "t", "p", "s", ":", "/", "/", "g", "i", "t", "h", "u", "b", ".", "c", "o", "m", "/", "o", "/", "r", "/", "p", "u", "l", "l", "/", "1", "2">>

HashRef == <<"#", "1", "2">>

BodyRefs == {ShortRef, UrlRef, HashRef, <<"c", "o", "m", "m", "i", "t", " ", "a", "b", "c", "1", "2", "3">>, NoStr}

\* a second reference on a line of its own, in the owner/repo form
ExtraRef == <<"\n", "R", "e", "v", "e", "r", "t", "s", " ", "o", "/", "r", "#", "7">>

InitBody ==
    /\ txIn \in [lead : {NoStr, <<"T", "h", "i", "s", " ">>}, verb : BodyVerbs, ref : BodyRefs, extra : {NoStr, ExtraRef}]
    /\ txText = txIn.lead \o txIn.verb \o txIn.ref \o txIn.extra
    /\ txOut = <<>>
    /\ IdlePR
    /\ IdleDoc
    /\ IdleKey
    /\ IdleCache
    /\ IdleSQL
    /\ IdleCSV
    /\ IdleAgain
    /\ IdlePool
    /\ IdleGen
    /\ IdleMemo
    /\ IdleFoot

\* PullRequest.is_revert and PullRequest.reverted_pr_number of the body
ParseBody ==
    /\ txOut = <<>>
    /\ txOut' = [is_revert |-> IsRevertBody(txText),
                 reverted_pr_number |-> RevertedPrNumber(txText)]
    /\ UNCHANGED <<txIn, txText>>
    /\ UNCHANGED notText

SpecBody == InitBody /\ [][ParseBody]_vars

\* the body holds the verb, in any letter case, followed by a reference to a
\* pull request in the given form
HoldsRevertOf(ref) == txIn.verb # NoStr /\ txIn.ref = ref

\* C24: is_revert is true exactly when the body holds 'Reverts', in any letter
\* case, followed by owner/repo#n, by a pull-request URL or by #n;
\* reverted_pr_number is then the number of the first of the three forms, in
\* this order, that stands anywhere in the body, and it is absent exactly when
\* is_revert is false, as for 'This reverts commit <sha>' and the empty body.
C24_RevertDetection ==
    txOut # <<>> =>
        /\ txOut.is_revert <=>
               \/ HoldsRevertOf(ShortRef) \/ HoldsRevertOf(UrlRef) \/ HoldsRevertOf(HashRef)
               \/ txIn.extra # NoStr
        /\ txOut.is_revert <=> txOut.reverted_pr_number # NoStr
        /\ txOut.reverted_pr_number =
               IF HoldsRevertOf(ShortRef) THEN Str(12)
               ELSE IF txIn.extra # NoStr THEN Str(7)
               ELSE IF HoldsRevertOf(UrlRef) \/ HoldsRevertOf(HashRef) THEN Str(12)
               ELSE NoStr

(***************************************************************************)
(* The lazily resolved backport target of a pull request entity            *)
(* (pretty_release_notes/models/pull_request.py).  The chain of entities   *)
(* starts at the pull request of a line; entity i + 1 is the backport_of   *)
(* of entity i.  The remote answers every get_pr request, as in SpecPR.    *)
(***************************************************************************)
MaxChain == 3

MaxMemoCalls == 3

MemoTitles == {PlainTitle, BackportTitle(1), MidMarkerTitle}

MemoOps == {"set_reviewers", "get_closed_issues", "get_prompt"}

InitMemo ==
    /\ mTitle \in {t \in [1..MaxChain -> MemoTitles] : t[MaxChain] = PlainTitle}
    /\ mOf = [i \in 1..MaxChain |-> FALSE]
    /\ mFetch = [i \in 1..MaxChain |-> 0]
    /\ mNeed = [i \in 1..MaxChain |-> FALSE]
    /\ mCalls = <<>>
    /\ IdlePR
    /\ IdleDoc
    /\ IdleKey
    /\ IdleCache
    /\ IdleSQL
    /\ IdleCSV
    /\ IdleAgain
    /\ IdlePool
    /\ IdleGen
    /\ IdleText
    /\ IdleFoot

\* a resolver that forgets that backport_of is already set
NeedsFetchUnmemoized(backport_no, backport_of) == backport_no # NoStr

\* the negated early return of _set_backport_of
NeedsFetch(backport_no, backport_of) == ~(backport_no = NoStr \/ backport_of)

\* _set_backport_of on entity i; e holds the fields of all entities
SetBackportOf(e, i) ==
    LET n == [e EXCEPT !.need[i] = TRUE] IN
    IF NeedsFetch(BackportNo(mTitle[i]), n.of[i])
    THEN [n EXCEPT !.of[i] = TRUE, !.fetch[i] = @ + 1]
    ELSE n

\* set_reviewers on entity i: its second thread resolves the target and
\* then sets the reviewers of the target, which resolves its own target
RECURSIVE SetReviewersFrom(_, _)
SetReviewersFrom(e, i) ==
    LET n == SetBackportOf(e, i) IN
    IF n.of[i] THEN SetReviewersFrom(n, i + 1) ELSE n

MemoFields == [of |-> mOf, fetch |-> mFetch, need |-> mNeed]

MemoAssign(n, op) ==
    /\ mOf' = n.of
    /\ mFetch' = n.fetch
    /\ mNeed' = n.need
    /\ mCalls' = Append(mCalls, op)
    /\ UNCHANGED mTitle
    /\ UNCHANGED notMemo

MemoSetReviewers ==
    /\ Len(mCalls) < MaxMemoCalls
    /\ MemoAssign(SetReviewersFrom(MemoFields, 1), "set_reviewers")

\* get_closed_issues: the entity's own issues, then the target is resolved;
\* the target's issues are read without resolving the target's target
MemoGetClosedIssues ==
    /\ Len(mCalls) < MaxMemoCalls
    /\ MemoAssign(SetBackportOf(MemoFields, 1), "get_closed_issues")

\* get_prompt calls get_closed_issues
MemoGetPrompt ==
    /\ Len(mCalls) < MaxMemoCalls
    /\ MemoAssign(SetBackportOf(MemoFields, 1), "get_prompt")

NextMemo == MemoSetReviewers \/ MemoGetClosedIssues \/ MemoGetPrompt

SpecMemo == InitMemo /\ [][NextMemo]_vars

RepeatsAncestor(d) ==
    /\ entNum[d] # 0
    /\ \E a \in Depths : a < d /\ entNum[a] = entNum[d]

\* C28: the resolution of the chain in set_reviewers ends; when a pull
\* request backports itself or the chain is cyclic it ends in an error, so
\* set_reviewers is never entered (and no thread started, no target
\* fetched) for a pull request that is already in the chain above.
C28_ChainResolutionTerminates ==
    \A d \in Depths : RepeatsAncestor(d) => call[d] = "idle"

(***************************************************************************)
(* The footer of ReleaseNotes.serialize: the names of ReleaseNotes.authors *)
(* and get_reviewers, both Python sets of strings.  A set of strings       *)
(* iterates in the order of the hashes of its members, and string hashes   *)
(* are drawn anew for every run of the interpreter; within a run the       *)
(* order is fixed.                                                         *)
(***************************************************************************)
MaxFootLines == 2

FootUsers == {"alice", "bob"}

Runs == {1, 2}

\* the orders in which a run can iterate a set of names
HashOrders ==
    {h \in [FootUsers -> 1..Cardinality(FootUsers)] :
        \A a, b \in FootUsers : h[a] = h[b] => a = b}

FootNoChange ==
    [kind |-> "none", id |-> 0, sha |-> NoStr, ctype |-> None, labels |-> {},
     reverted |-> NoStr, author |-> None, orig |-> None, reviewers |-> NoneSet]

\* what the body filters see of a change: nothing, an excluded type, an
\* excluded label, a revert of PR #1
FootFilterKinds == {"plain", "typed", "labelled", "revert"}

FootVariants ==
    [filter : FootFilterKinds, orig : {None, "bob"}, reviewers : {NoneSet, FootUsers}]

\* the pull request #i of alice; orig is the author of its backport_of
FootPR(i, v) ==
    [kind |-> "pr", id |-> i, sha |-> NoStr,
     ctype |-> IF v.filter = "typed" THEN "feat" ELSE None,
     labels |-> IF v.filter = "labelled" THEN {"skip"} ELSE {},
     reverted |-> IF v.filter = "revert" THEN Str(1) ELSE NoStr,
     author |-> "alice", orig |-> v.orig, reviewers |-> v.reviewers]

FootDocs ==
    UNION {{[i \in 1..n |-> IF v[i] = FootNoChange THEN FootNoChange ELSE FootPR(i, v[i])] :
               v \in [1..n -> FootVariants \cup {FootNoChange}]} : n \in 0..MaxFootLines}

NoFootArgs ==
    [called |-> FALSE, types |-> {}, labels |-> {}, grouped |-> FALSE, exclude_authors |-> NoneSet]

InitFoot ==
    /\ fDoc \in FootDocs
    /\ fSeed \in [Runs -> HashOrders]
    /\ fArgs = NoFootArgs
    /\ fOut = [r \in Runs |-> [done |-> FALSE, items |-> <<>>]]
    /\ IdlePR
    /\ IdleDoc
    /\ IdleKey
    /\ IdleCache
    /\ IdleSQL
    /\ IdleCSV
    /\ IdleAgain
    /\ IdlePool
    /\ IdleGen
    /\ IdleText
    /\ IdleMemo

\* PullRequest.get_author: backport_of.author if backport_of else author
GetAuthorOf(c) == IF c.orig # None THEN c.orig ELSE c.author

\* ReleaseNotes.authors
Authors(d) == {GetAuthorOf(d[i]) : i \in {j \in DOMAIN d : HasChange(d[j])}}

\* ReleaseNotes.get_reviewers
GetReviewers(d) ==
    UNION {d[i].reviewers : i \in {j \in DOMAIN d :
               HasChange(d[j]) /\ SetOrEmpty(d[j].reviewers) # {}}}

\* iteration over the set S in a run whose hash order is h
RECURSIVE SetOrder(_, _)
SetOrder(S, h) ==
    IF S = {} THEN <<>>
    ELSE LET x == CHOOSE a \in S : \A b \in S : h[a] <= h[b]
         IN <<x>> \o SetOrder(S \ {x}, h)

\* a footer that lists the excluded names too
FooterNamesAll(S, exclude_authors, h) == SetOrder(S, h)

\* ", ".join(f"@{name}" for name in S if name not in exclude_authors)
FooterNames(S, exclude_authors, h) ==
    SelectSeq(SetOrder(S, h), LAMBDA name : name \notin exclude_authors)

\* 'if authors_string:' / 'if reviewers_string:': the line is appended when
\* the joined string is not empty
FooterLine(label, names) ==
    IF names = <<>> THEN <<>> ELSE <<[k |-> label, names |-> names]>>

\* serialize: exclude_authors None stands for the empty set; the body, then
\* the two footer lines
SerializeWithFooter(d, et, el, grouped, exclude_authors, h) ==
    LET excluded == SetOrEmpty(exclude_authors) IN
    (IF grouped THEN SerializeGrouped(d, et, el) ELSE SerializeFlat(d, et, el))
        \o FooterLine("Authors", FooterNames(Authors(d), excluded, h))
        \o FooterLine("Reviewers", FooterNames(GetReviewers(d), excluded, h))

\* serialize in run r; both runs are given the same arguments
FootSerialize(r, et, el, grouped, exclude_authors) ==
    LET args == [called |-> TRUE, types |-> et, labels |-> el, grouped |-> grouped,
                 exclude_authors |-> exclude_authors]
    IN /\ ~fOut[r].done
       /\ fArgs.called => fArgs = args
       /\ fArgs' = args
       /\ fOut' = [fOut EXCEPT ![r] =
              [done |-> TRUE,
               items |-> SerializeWithFooter(fDoc, et, el, grouped, exclude_authors, fSeed[r])]]
       /\ UNCHANGED <<fDoc, fSeed>>
       /\ UNCHANGED notFoot

NextFoot ==
    \E r \in Runs, et \in {{}, {"feat"}}, grouped \in BOOLEAN, ex \in {NoneSet, {"alice"}} :
        FootSerialize(r, et, {"skip"}, grouped, ex)

SpecFoot == InitFoot /\ [][NextFoot]_vars

\* C29: two evaluations of serialize on the same document with the same
\* filters and grouping, in the same or in different runs, return the
\* identical string, the order of the names in the Authors and Reviewers
\* lines included.
C29_SerializeDeterministic ==
    (fOut[1].done /\ fOut[2].done) => fOut[1].items = fOut[2].items

\* the names of the footer line with the given label, <<>> when the
\* output has no such line
FooterOf(items, label) ==
    IF \E j \in DOMAIN items : items[j].k = label
    THEN items[CHOOSE j \in DOMAIN items : items[j].k = label].names
    ELSE <<>>

ListsExactly(names, S) ==
    /\ {names[j] : j \in DOMAIN names} = S
    /\ Len(names) = Cardinality(S)

\* C30: the Authors line lists, each once, the get_author of every change
\* of the document that is not in exclude_authors, the Reviewers line the
\* union of the reviewer sets minus exclude_authors; a line whose list is
\* empty is left out; the lines that the type, label and revert filters
\* drop from the body count like the others.
C30_FooterContents ==
    \A r \in Runs : fOut[r].done =>
        LET items == fOut[r].items
            changes == {i \in DOMAIN fDoc : fDoc[i].kind # "none"}
            excluded == IF fArgs.exclude_authors = NoneSet THEN {} ELSE fArgs.exclude_authors
            authors == {IF fDoc[i].orig # None THEN fDoc[i].orig ELSE fDoc[i].author :
                           i \in changes} \ excluded
            reviewers == UNION {IF fDoc[i].reviewers = NoneSet THEN {} ELSE fDoc[i].reviewers :
                                    i \in changes} \ excluded
        IN /\ ListsExactly(FooterOf(items, "Authors"), authors)
           /\ ListsExactly(FooterOf(items, "Reviewers"), reviewers)
           /\ Cardinality({j \in DOMAIN items : items[j].k = "Authors"})
                  = (IF authors = {} THEN 0 ELSE 1)
           /\ Cardinality({j \in DOMAIN items : items[j].k = "Reviewers"})
                  = (IF reviewers = {} THEN 0 ELSE 1)

\* a backport of bob's pull request is dropped from the body by a filter,
\* alice is excluded, and the footer still names bob as author
C30_Witness ==
    /\ fOut[1].done
    /\ fArgs.exclude_authors = {"alice"}
    /\ \E i \in Skipped(fDoc, fArgs.types, fArgs.labels) :
           /\ fDoc[i].orig = "bob"
           /\ \A j \in DOMAIN fDoc : j # i => fDoc[j].orig = None
    /\ FooterOf(fOut[1].items, "Authors") = <<"bob">>
    /\ FooterOf(fOut[1].items, "Reviewers") = <<>>

=============================================================================
